---- MODULE Spec2Model ----
(***************************************************************************)
(* Model of the SCM authentication subsystem of che-server (TypeScript):   *)
(* the OAuth 1.0a engine BitbucketServerOAuth1Authenticator                *)
(* (src/services/OAuth1Service.ts) and the routes that drive it            *)
(* (src/routes/oauth1Routes.ts), the OAuth 2.0 routes                      *)
(* (registerOAuthRoutes) and the PAT lookup of the Credential Store        *)
(* (src/services/PatLookupService.ts).                                     *)
(*                                                                         *)
(* Strings that the code only compares are TLA+ strings.  A query          *)
(* parameter that is absent and one that is empty are the same value ""    *)
(* because the code reads every parameter with `?? ''`, `!x` or `x &&`.    *)
(* URLs that the code cuts and glues are sequences of tokens: a token is   *)
(* one reserved character ("?", "&", "=", "{", ...) or a run of            *)
(* unreserved characters ("dashboard", "error_code").                      *)
(***************************************************************************)
EXTENDS Integers, Sequences, FiniteSets, TLC

\* ------------------------------------------------------------------ bounds
MaxRequests == 2
MaxInFlight == 2
MaxBbTokens == 2

\* ------------------------------------------------------------- value sets
Users == {"u1", "u2"}
Subjects == {[id |-> "u1", userName |-> "u1"], [id |-> "u2", userName |-> ""]}
BbSlugs == {"alice"}
NAME == "bitbucket-server"
Providers == {"", NAME, "github"}

Dashboard == <<"/", "dashboard", "/">>
DashboardQ == <<"/", "dashboard", "/", "?", "p", "=", "{", "}">>
Malformed == <<"http", ":", "/", "/", "[", "{", "}">>

\* ------------------------------------------------- strings as token runs
\* String.prototype.indexOf(ch): 1-based position of the first ch, 0 if none
RECURSIVE IndexOfFrom(_, _, _)
IndexOfFrom(s, ch, i) ==
  IF i > Len(s) THEN 0
  ELSE IF s[i] = ch THEN i ELSE IndexOfFrom(s, ch, i + 1)

IndexOf(s, ch) == IndexOfFrom(s, ch, 1)

Includes(s, ch) == IndexOf(s, ch) # 0

\* String.prototype.indexOf(sub): position of the first occurrence of sub
RECURSIVE IndexOfSubFrom(_, _, _)
IndexOfSubFrom(s, sub, i) ==
  IF i + Len(sub) - 1 > Len(s) THEN 0
  ELSE IF SubSeq(s, i, i + Len(sub) - 1) = sub THEN i
  ELSE IndexOfSubFrom(s, sub, i + 1)

IndexOfSub(s, sub) == IndexOfSubFrom(s, sub, 1)

\* encodeURIComponent on one token: reserved characters become %XX
EncodeToken(c) ==
  CASE c = "=" -> <<"%", "3", "D">>
    [] c = "{" -> <<"%", "7", "B">>
    [] c = "}" -> <<"%", "7", "D">>
    [] c = "&" -> <<"%", "2", "6">>
    [] c = "?" -> <<"%", "3", "F">>
    [] c = "/" -> <<"%", "2", "F">>
    [] c = ":" -> <<"%", "3", "A">>
    [] c = "#" -> <<"%", "2", "3">>
    [] c = "%" -> <<"%", "2", "5">>
    [] c = " " -> <<"%", "2", "0">>
    [] OTHER -> <<c>>

RECURSIVE EncodeURIComponent(_)
EncodeURIComponent(s) ==
  IF s = <<>> THEN <<>> ELSE EncodeToken(Head(s)) \o EncodeURIComponent(Tail(s))

\* the URL parser strips leading and trailing spaces from its input
RECURSIVE TrimStart(_)
TrimStart(s) == IF s # <<>> /\ Head(s) = " " THEN TrimStart(Tail(s)) ELSE s

RECURSIVE TrimEnd(_)
TrimEnd(s) ==
  IF s # <<>> /\ s[Len(s)] = " " THEN TrimEnd(SubSeq(s, 1, Len(s) - 1)) ELSE s

\* the URL parser percent-encodes a space inside the query
RECURSIVE EncodeSpaces(_)
EncodeSpaces(s) ==
  IF s = <<>> THEN <<>>
  ELSE (IF Head(s) = " " THEN <<"%", "2", "0">> ELSE <<Head(s)>>) \o EncodeSpaces(Tail(s))

\* new URL(urlStr, base).search without its leading "?": the text between
\* the first "?" and the first "#", none when a "#" comes first, as the
\* parser serializes it
SearchOf(urlStr) ==
  LET u == TrimEnd(TrimStart(urlStr))
      q == IndexOf(u, "?")
      h == IndexOf(u, "#")
      stop == IF h = 0 THEN Len(u) + 1 ELSE h
  IN IF q = 0 \/ q > stop THEN <<>>
     ELSE LET h2 == IndexOfFrom(u, "#", q)
              e == IF h2 = 0 THEN Len(u) ELSE h2 - 1
          IN EncodeSpaces(SubSeq(u, q + 1, e))

\* new URL(urlStr, base) throws a TypeError: urlStr is absolute with a special
\* scheme, or starts with "//" and takes the scheme of base, and its host is
\* empty or holds a forbidden host code point

\* the parser skips every slash in front of the host
RECURSIVE SkipSlashes(_, _)
SkipSlashes(urlStr, i) ==
  IF i <= Len(urlStr) /\ urlStr[i] = "/" THEN SkipSlashes(urlStr, i + 1) ELSE i

RECURSIVE HostEnd(_, _)
HostEnd(urlStr, i) ==
  IF i > Len(urlStr) \/ urlStr[i] \in {"/", "?", "#"} THEN i - 1
  ELSE HostEnd(urlStr, i + 1)

UrlThrows(urlStr) ==
  LET u == TrimEnd(TrimStart(urlStr))
      absolute == /\ Len(u) >= 4
                  /\ u[1] \in {"http", "https"}
                  /\ u[2] = ":" /\ u[3] = "/" /\ u[4] = "/"
      relative == Len(u) >= 2 /\ u[1] = "/" /\ u[2] = "/"
      s == SkipSlashes(u, IF absolute THEN 5 ELSE 3)
      e == HostEnd(u, s)
  IN /\ absolute \/ relative
     /\ e < s \/ \E i \in s..e : u[i] \in {" ", "<", ">", "[", "]", "^", "|"}

\* getRedirectAfterLoginUrl throws: raw braces send the value through new URL()
RedirectThrows(redirect) ==
  (Includes(redirect, "{") \/ Includes(redirect, "}")) /\ UrlThrows(redirect)

encodeRedirectUrlLikeJava(urlStr) ==
  LET query == SearchOf(urlStr)
      idx == IndexOfSub(urlStr, query)
  IN IF query = <<>> THEN urlStr
     ELSE IF idx = 0 THEN urlStr
     ELSE SubSeq(urlStr, 1, idx - 1) \o EncodeURIComponent(query)

\* errorCode "" stands for the omitted argument
getRedirectAfterLoginUrl(redirect, errorCode) ==
  LET repaired == IF Includes(redirect, "{") \/ Includes(redirect, "}")
                  THEN encodeRedirectUrlLikeJava(redirect)
                  ELSE redirect
  IN IF errorCode # ""
     THEN repaired \o <<(IF Includes(repaired, "?") THEN "&" ELSE "?"),
                        "error_code", "=", errorCode>>
     ELSE repaired


\* ------------------------------------------------------------ requests
\* the parameters the handlers read from a query string or from `state`
EmptyParams == [userId |-> "", oauth_provider |-> "", redirect_after_login |-> <<>>]

\* provider answers to the request-token request: a status and a form-encoded
\* body (empty: no body at all) with its oauth_token and oauth_token_secret
Response(status, empty, token, secret) ==
  [status |-> status, empty |-> empty, oauth_token |-> token,
   oauth_token_secret |-> secret]

\* ------------------------------------------------------------ state
VARIABLES
  configured,           \* OAuth1Service.bitbucketServer is defined
  systemStatus,         \* system routes: the status GET /system/state reports
  stopCalled,           \* system routes: POST /system/stop has been accepted
  shutdownTimer,        \* system routes: the setTimeout callback is queued
  tempTokenSecrets,     \* Map oauth_token -> oauth_token_secret
  credentialsByUserId,  \* Map userId -> {token, tokenSecret}
  registered,           \* provider side: who registered which oauth_callback per token
  calls,                \* handler invocations suspended at an await
  nreq,                 \* number of requests received since the initial state
  bbTokens,             \* provider side: personal access tokens
  nextBbId,             \* provider side: id of the next token it creates
  patSecrets,           \* Credential Store: PAT secrets by namespace
  oauthTokens,          \* OAuthService: tokens kept in memory per user and provider
  authenticators,       \* OAuthService: the registered OAuth 2.0 authenticators
  last                  \* what the handler step taken last returned or replied

vars == <<configured, systemStatus, stopCalled, shutdownTimer, tempTokenSecrets, credentialsByUserId, registered, calls,
          nreq, bbTokens, nextBbId, patSecrets, oauthTokens, authenticators, last>>

\* Map helpers
Put(m, k, v) == [x \in DOMAIN m \cup {k} |-> IF x = k THEN v ELSE m[x]]

Delete(m, k) == [x \in DOMAIN m \ {k} |-> m[x]]

EmptyMap == [x \in {} |-> ""]


NoCall ==
  [op |-> "", pc |-> "", subject |-> [id |-> "", userName |-> ""], token |-> "", verifier |-> "",
   userId |-> "",
   redirect |-> <<>>, hadSecret |-> FALSE, flow |-> FALSE,
   cbUserId |-> "", cbState |-> EmptyParams,
   slug |-> "", toDelete |-> <<>>, deleteFailed |-> FALSE, patValue |-> 0,
   requests |-> <<>>, listed |-> {}]

\* OAuth 2.0 routes: the subject of a request is none or a session; userId and
\* userName of a session are the same name in every branch of the
\* authenticate hook.  Strings of these routes are sequences of tokens.
NoSession == [present |-> FALSE, userId |-> <<>>, userName |-> <<>>]

Session(name) == [present |-> TRUE, userId |-> name, userName |-> name]

\* Buffer.from(text).toString('base64'): the string that is the base64 form
\* of text; a raw string is one that is not the base64 form of any JSON text
Base64Encode(text) == [enc |-> "base64", text |-> text]

RawString(text) == [enc |-> "raw", text |-> text]

\* no PAT secret
NoPat ==
  [namespace |-> <<>>, tokenName |-> "", cheUserId |-> <<>>, gitProvider |-> <<>>,
   gitProviderEndpoint |-> <<>>, isOauth |-> FALSE, tokenData |-> RawString(<<>>)]

\* parse() returned null
NoDescriptor ==
  [providerName |-> "", serverUrl |-> <<>>, owner |-> <<>>, user |-> <<>>,
   repository |-> <<>>, branch |-> <<>>]

NoLast ==
  [op |-> "", status |-> 0, location |-> <<>>, kind |-> "", sent |-> FALSE,
   tempChanged |-> FALSE, credChanged |-> FALSE,
   subject |-> "", userId |-> "", cbUserId |-> "", token |-> "", respSecret |-> "",
   tokenMissing |-> FALSE, verifier |-> "", redirect |-> <<>>, supported |-> FALSE,
   hadSecret |-> FALSE, secretGone |-> FALSE, flow |-> FALSE,
   exchangeOk |-> FALSE, flowDone |-> FALSE,
   hostOk |-> FALSE, urlValid |-> FALSE, hadCred |-> FALSE, header |-> <<>>, patError |-> FALSE,
   errorCode |-> "",
   session |-> NoSession, provider |-> <<>>, state |-> RawString(<<>>), code |-> <<>>,
   oauthError |-> <<>>, exchange |-> "", pat |-> NoPat, cached |-> FALSE, clean |-> FALSE,
   sequential |-> FALSE, startedRevoked |-> FALSE, changed |-> FALSE,
   secrets |-> <<>>, listing |-> "", hint |-> <<>>,
   requests |-> <<>>, listed |-> {}, failedAt |-> "",
   url |-> <<>>, descriptor |-> NoDescriptor, classified |-> "", raw |-> <<>>,
   answers |-> <<>>, revoked |-> {},
   patInfo |-> [tokenName |-> "", tokenData |-> <<>>, gitProvider |-> <<>>,
                gitProviderEndpoint |-> <<>>, cheUserId |-> <<>>, isOauth |-> FALSE]]

\* exception kinds
OAuth1Error == "OAuth1AuthenticationException"
UserDenied == "UserDeniedOAuthAuthenticationException"

\* registerSystemRoutes: the closure variables of a new instance
SystemInit ==
  /\ systemStatus = "RUNNING"
  /\ stopCalled = FALSE
  /\ shutdownTimer = FALSE

Init ==
  /\ configured \in BOOLEAN
  /\ SystemInit
  /\ tempTokenSecrets = EmptyMap
  /\ credentialsByUserId = EmptyMap
  /\ registered = EmptyMap
  /\ calls = EmptyMap
  /\ nreq = 0
  /\ bbTokens = {}
  /\ nextBbId = 1
  /\ patSecrets = {}
  /\ oauthTokens = EmptyMap
  /\ authenticators = {}
  /\ last = NoLast

\* a request arrives: it gets the next request number
Accept ==
  /\ nreq < MaxRequests
  /\ Cardinality(DOMAIN calls) < MaxInFlight
  /\ nreq' = nreq + 1

\* OAuth1Service.getAuthenticator(providerName)
getAuthenticator(providerName) == providerName = NAME /\ configured

\* ---------------------------------------------- GET /oauth/1.0/authenticate

\* route: the 400 answers before the authenticator is called
AuthenticateRejected(query) ==
  \/ query.oauth_provider = ""
  \/ query.redirect_after_login = <<>>
  \/ ~getAuthenticator(query.oauth_provider)

\* mutant: the provided userId is never compared
UserIdMismatch_Never(providedUserId, currentUserId) == FALSE

\* getAuthenticateUrl: the provided userId is not the current user's
UserIdMismatch(providedUserId, currentUserId) ==
  providedUserId # "" /\ providedUserId # currentUserId

\* getAuthenticateUrl: queryParams.set('userId', currentUserId) when none given
CallbackUserId(providedUserId, currentUserId) ==
  IF providedUserId = "" THEN currentUserId ELSE providedUserId

\* getAuthenticateUrl: the checks on the request-token response
RequestTokenFailed(resp) ==
  resp.status # 200 \/ resp.empty \/ resp.oauth_token = ""

\* mutant: a secret already stored for the token is kept
StoreTempSecret_KeepOld(temp, resp) ==
  IF resp.oauth_token_secret # "" /\ resp.oauth_token \notin DOMAIN temp
  THEN Put(temp, resp.oauth_token, resp.oauth_token_secret)
  ELSE temp

\* getAuthenticateUrl: the temporary secret is stored when the body has one
StoreTempSecret(temp, resp) ==
  IF resp.oauth_token_secret # ""
  THEN Put(temp, resp.oauth_token, resp.oauth_token_secret)
  ELSE temp

\* route checks, then getAuthenticateUrl up to its request-token request
AuthenticateStart(subject, query, st, hostOk) ==
  /\ Accept
  /\ UNCHANGED <<oauthTokens, authenticators, configured, systemStatus, stopCalled, shutdownTimer, tempTokenSecrets, credentialsByUserId, registered,
                 bbTokens, nextBbId, patSecrets>>
  /\ LET base == [NoLast EXCEPT !.op = "authenticate", !.subject = subject.id,
                                !.userId = query.userId]
     IN IF AuthenticateRejected(query)
        THEN /\ last' = [base EXCEPT !.status = 400]
             /\ UNCHANGED calls
        ELSE IF ~hostOk
        THEN \* new URL(`${proto}://${host}${request.raw.url}`) throws
             /\ last' = [base EXCEPT !.status = 500]
             /\ UNCHANGED calls
        ELSE IF UserIdMismatch(query.userId, subject.id)
        THEN /\ last' = [base EXCEPT !.status = 400, !.kind = OAuth1Error]
             /\ UNCHANGED calls
        ELSE /\ calls' = Put(calls, nreq + 1,
                  [NoCall EXCEPT !.op = "authenticate", !.pc = "request-token",
                                 !.subject = subject, !.userId = query.userId,
                                 !.cbUserId = CallbackUserId(query.userId, subject.id),
                                 !.cbState = st])
             /\ last' = NoLast

\* the provider's answer arrives: rest of getAuthenticateUrl and of the route
AuthenticateResp(id, resp) ==
  /\ id \in DOMAIN calls
  /\ calls[id].op = "authenticate"
  /\ calls' = Delete(calls, id)
  /\ UNCHANGED <<oauthTokens, authenticators, configured, systemStatus, stopCalled, shutdownTimer, credentialsByUserId, nreq, bbTokens, nextBbId, patSecrets>>
  /\ LET c == calls[id]
         base == [NoLast EXCEPT !.op = "authenticate", !.subject = c.subject.id,
                                !.userId = c.userId, !.sent = TRUE,
                                !.cbUserId = c.cbUserId,
                                !.token = resp.oauth_token,
                                !.respSecret = resp.oauth_token_secret]
         issued == resp.status = 200 /\ ~resp.empty /\ resp.oauth_token # ""
     IN /\ registered' = IF issued
                         THEN Put(registered, resp.oauth_token,
                                  [user |-> c.subject.id, state |-> c.cbState])
                         ELSE registered
        /\ IF RequestTokenFailed(resp)
           THEN /\ last' = [base EXCEPT !.status = 400, !.kind = OAuth1Error]
                /\ UNCHANGED tempTokenSecrets
           ELSE /\ tempTokenSecrets' = StoreTempSecret(tempTokenSecrets, resp)
                /\ last' = [base EXCEPT !.status = 307, !.kind = "ok",
                               !.location = <<"authorize", "?", "oauth_token", "=", resp.oauth_token>>,
                               !.tempChanged = (tempTokenSecrets' # tempTokenSecrets)]


\* ------------------------------------------------- GET /oauth/1.0/callback
\* the requests of an invocation so far, with the one it sends now: each is
\* signed by computeAuthorizationHeader with the credential stored for userId
ProviderCall(creds, c, req, tid) ==
  Append(c.requests, [req |-> req, id |-> tid, cred |-> creds[c.userId].token])

\* `che-token-${userId}-${hostHash}`: the host hash is fixed for a deployment
DisplayName(userId) == <<"che-token", userId>>

\* the request is the provider's redirect of a flow the same user started:
\* its oauth_token was issued in Leg 1 and it carries what Leg 1 registered
IsFlow(subject, token, verifier, st) ==
  /\ token \in DOMAIN registered
  /\ registered[token].user = subject.id
  /\ registered[token].state = st
  /\ verifier = "v"

\* mutant: the "denied" verifier is not told apart from a real one
CallbackPrecheck_NoDenied(oauthToken, oauthVerifier) ==
  IF oauthToken = "" THEN OAuth1Error
  ELSE IF oauthVerifier = "" THEN OAuth1Error
  ELSE ""

\* callback: the parameter checks before anything is signed
CallbackPrecheck(oauthToken, oauthVerifier) ==
  IF oauthToken = "" THEN OAuth1Error
  ELSE IF oauthVerifier = "" THEN OAuth1Error
  ELSE IF oauthVerifier = "denied" THEN UserDenied
  ELSE ""

\* mutant: the userId of the state is not checked before the maps are written
AccessTokenFailed_UserIdUnchecked(resp, userId) ==
  \/ resp.status # 200
  \/ resp.empty
  \/ resp.oauth_token = ""

\* callback: the checks after the access-token response
AccessTokenFailed(resp, userId) ==
  \/ resp.status # 200
  \/ resp.empty
  \/ resp.oauth_token = ""
  \/ userId = ""

\* mutant: the route does not tell the user-denied exception apart
ErrorCode_AlwaysInvalid(kind) == "invalid_request"

\* route: the error_code for an exception thrown by callback()
ErrorCode(kind) == IF kind = UserDenied THEN "access_denied" ELSE "invalid_request"


\* route prologue, then callback() up to its access-token request
CallbackStart(subject, token, verifier, st, hostOk) ==
  /\ Accept
  /\ UNCHANGED <<oauthTokens, authenticators, configured, systemStatus, stopCalled, shutdownTimer, tempTokenSecrets, credentialsByUserId, registered,
                 bbTokens, nextBbId, patSecrets>>
  /\ LET redirectAfterLogin == getRedirectAfterLoginUrl(st.redirect_after_login, "")
         kind == CallbackPrecheck(token, verifier)
         base == [NoLast EXCEPT !.op = "callback", !.tokenMissing = (token = ""),
                                !.verifier = verifier, !.status = 307, !.hostOk = TRUE,
                                !.redirect = st.redirect_after_login,
                                !.supported = getAuthenticator(st.oauth_provider),
                                !.flow = IsFlow(subject, token, verifier, st)]
     IN IF RedirectThrows(st.redirect_after_login) \/ ~hostOk
        THEN \* uncaught TypeError of new URL() in the route prologue
             /\ last' = [base EXCEPT !.status = 500, !.hostOk = hostOk]
             /\ UNCHANGED calls
        ELSE IF ~getAuthenticator(st.oauth_provider)
        THEN /\ last' = [base EXCEPT !.location = redirectAfterLogin \o <<"?", "error_code", "=", "invalid_request">>]
             /\ UNCHANGED calls
        ELSE IF kind # ""
        THEN /\ last' = [base EXCEPT !.kind = kind,
                           !.location = getRedirectAfterLoginUrl(
                                          st.redirect_after_login, ErrorCode(kind))]
             /\ UNCHANGED calls
        ELSE /\ calls' = Put(calls, nreq + 1,
                  [NoCall EXCEPT !.op = "callback", !.pc = "access-token",
                                 !.subject = subject, !.token = token,
                                 !.verifier = verifier, !.userId = st.userId,
                                 !.redirect = st.redirect_after_login,
                                 !.hadSecret = (token \in DOMAIN tempTokenSecrets),
                                 !.flow = IsFlow(subject, token, verifier, st)])
             /\ last' = NoLast

\* the provider's answer to the access-token request arrives: rest of
\* callback(); the route then replies or goes on to create the PAT
CallbackResp(id, resp) ==
  /\ id \in DOMAIN calls
  /\ calls[id].op = "callback"
  /\ calls[id].pc = "access-token"
  /\ UNCHANGED <<oauthTokens, authenticators, configured, systemStatus, stopCalled, shutdownTimer, registered, nreq, bbTokens, nextBbId, patSecrets>>
  /\ LET c == calls[id]
         base == [NoLast EXCEPT !.op = "callback", !.sent = TRUE, !.hostOk = TRUE,
                    !.subject = c.subject.id, !.userId = c.userId, !.token = c.token,
                    !.tokenMissing = (c.token = ""), !.verifier = c.verifier,
                    !.redirect = c.redirect, !.supported = TRUE,
                    !.hadSecret = c.hadSecret, !.flow = c.flow,
                    !.secretGone = (c.hadSecret /\ c.token \notin DOMAIN tempTokenSecrets),
                    !.exchangeOk = (resp.status = 200 /\ ~resp.empty
                                    /\ resp.oauth_token # "")]
     IN IF AccessTokenFailed(resp, c.userId)
        THEN /\ last' = [base EXCEPT !.kind = OAuth1Error, !.status = 307,
                           !.location = getRedirectAfterLoginUrl(
                                          c.redirect, ErrorCode(OAuth1Error))]
             /\ calls' = Delete(calls, id)
             /\ UNCHANGED <<tempTokenSecrets, credentialsByUserId>>
        ELSE /\ credentialsByUserId' =
                  Put(credentialsByUserId, c.userId,
                      [token |-> resp.oauth_token, tokenSecret |-> resp.oauth_token_secret])
             /\ tempTokenSecrets' = Delete(tempTokenSecrets, c.token)
             /\ LET ok == [base EXCEPT !.kind = "ok",
                             !.tempChanged = (tempTokenSecrets' # tempTokenSecrets),
                             !.credChanged = (credentialsByUserId' # credentialsByUserId),
                             !.flowDone =
                                (/\ c.userId = c.subject.id
                                 /\ c.subject.id \in DOMAIN credentialsByUserId'
                                 /\ credentialsByUserId'[c.subject.id] =
                                      [token |-> resp.oauth_token,
                                       tokenSecret |-> resp.oauth_token_secret]
                                 /\ c.token \notin DOMAIN tempTokenSecrets')]
                IN IF c.subject.userName # ""
                   THEN \* createOrRefreshPersonalAccessToken: whoami request sent
                        /\ calls' = [calls EXCEPT ![id] =
                              [NoCall EXCEPT !.op = "callback", !.pc = "whoami",
                                             !.subject = c.subject, !.userId = c.userId,
                                             !.verifier = c.verifier,
                                             !.redirect = c.redirect,
                                             !.requests = ProviderCall(
                                                credentialsByUserId', c, "whoami", 0)]]
                        /\ last' = ok
                   ELSE /\ calls' = Delete(calls, id)
                        /\ last' = [ok EXCEPT !.status = 307,
                                      !.location = getRedirectAfterLoginUrl(c.redirect, "")]

\* ------------------------------------- createOrRefreshPersonalAccessToken
\* called from the route, the route catches every error of the PAT block, logs
\* it and still redirects; called directly, the method returns or throws
CallbackReply(c, patError) ==
  IF c.op = "rotate"
  THEN [NoLast EXCEPT !.op = "rotate", !.userId = c.userId,
                      !.kind = IF patError THEN OAuth1Error ELSE "ok",
                      !.patError = patError,
                      !.requests = c.requests, !.listed = c.listed]
  ELSE [NoLast EXCEPT !.op = "callback-reply", !.kind = "ok", !.status = 307,
                 !.verifier = c.verifier, !.supported = TRUE, !.hostOk = TRUE,
                 !.redirect = c.redirect, !.patError = patError,
                 !.userId = c.userId,
                 !.requests = c.requests, !.listed = c.listed,
                 !.location = getRedirectAfterLoginUrl(c.redirect, "")]

PatFrame == UNCHANGED <<oauthTokens, authenticators, configured, systemStatus, stopCalled, shutdownTimer, tempTokenSecrets, credentialsByUserId,
                        registered, nreq>>

InPat(id, pc) ==
  id \in DOMAIN calls /\ calls[id].op \in {"callback", "rotate"} /\ calls[id].pc = pc

\* 1) application-properties answered; username is the x-ausername header
PatWhoami(id, username) ==
  /\ InPat(id, "whoami")
  /\ PatFrame
  /\ UNCHANGED <<bbTokens, nextBbId, patSecrets>>
  /\ IF username = ""
     THEN /\ calls' = Delete(calls, id)
          /\ last' = [CallbackReply(calls[id], TRUE) EXCEPT !.failedAt = "whoami"]
     ELSE /\ calls' = [calls EXCEPT ![id].pc = "users", ![id].slug = username,
                          ![id].requests = ProviderCall(
                             credentialsByUserId, calls[id], "users", 0)]
          /\ last' = NoLast

\* 2) user search answered: "match" is HTTP 200 with the user and its slug
PatUsers(id, answer) ==
  /\ InPat(id, "users")
  /\ PatFrame
  /\ UNCHANGED <<bbTokens, nextBbId, patSecrets>>
  /\ IF answer # "match"
     THEN /\ calls' = Delete(calls, id)
          /\ last' = [CallbackReply(calls[id], TRUE) EXCEPT !.failedAt = "users"]
     ELSE /\ calls' = [calls EXCEPT ![id].pc = "list",
                          ![id].requests = ProviderCall(
                             credentialsByUserId, calls[id], "list", 0)]
          /\ last' = NoLast

\* tokens.filter(t => t.name === tokenDisplayName && t.id !== undefined), by id
RECURSIVE IdsInOrder(_)
IdsInOrder(S) ==
  IF S = {} THEN <<>>
  ELSE LET m == CHOOSE x \in S : \A y \in S : x <= y
       IN <<m>> \o IdsInOrder(S \ {m})

\* mutant: only the first token with the display name is deleted
ToDelete_FirstOnly(tokens, slug, tokenDisplayName) ==
  LET ids == IdsInOrder({t.id : t \in {x \in tokens : x.slug = slug
                                                     /\ x.name = tokenDisplayName}})
  IN IF ids = <<>> THEN <<>> ELSE <<Head(ids)>>

ToDelete(tokens, slug, tokenDisplayName) ==
  IdsInOrder({t.id : t \in {x \in tokens : x.slug = slug /\ x.name = tokenDisplayName}})

\* 3) token list answered (status 200 with values, or not): the first delete
\*    request is sent, or the create request when there is nothing to delete
PatList(id, status) ==
  /\ InPat(id, "list")
  /\ PatFrame
  /\ UNCHANGED <<bbTokens, nextBbId, patSecrets>>
  /\ last' = NoLast
  /\ LET c == calls[id]
         toDelete == IF status = 200
                     THEN ToDelete(bbTokens, c.slug, DisplayName(c.userId))
                     ELSE <<>>
     IN calls' = [calls EXCEPT
                    ![id].toDelete = toDelete,
                    ![id].listed = IF status = 200
                                   THEN {t \in bbTokens : t.slug = c.slug} ELSE {},
                    ![id].pc = IF toDelete = <<>> THEN "create" ELSE "delete",
                    ![id].requests =
                       IF toDelete = <<>>
                       THEN ProviderCall(credentialsByUserId, c, "create", 0)
                       ELSE ProviderCall(credentialsByUserId, c, "delete",
                                         Head(toDelete))]


\* a delete answered: 204 removes the token, 404 when it is already gone,
\* 403 leaves it; the loop goes on to the next delete or to the create request
PatDelete(id, status) ==
  /\ InPat(id, "delete")
  /\ PatFrame
  /\ UNCHANGED <<nextBbId, patSecrets>>
  /\ last' = NoLast
  /\ LET c == calls[id]
         tid == Head(c.toDelete)
         exists == \E t \in bbTokens : t.id = tid
         rest == Tail(c.toDelete)
     IN /\ status = 204 => exists
        /\ status = 404 => ~exists
        /\ bbTokens' = IF status = 204 THEN {t \in bbTokens : t.id # tid} ELSE bbTokens
        /\ calls' = [calls EXCEPT
                       ![id].toDelete = rest,
                       ![id].deleteFailed = (c.deleteFailed \/ (status # 200 /\ status # 204 /\ status # 404)),
                       ![id].pc = IF rest = <<>> THEN "create" ELSE "delete",
                       ![id].requests =
                          IF rest = <<>>
                          THEN ProviderCall(credentialsByUserId, c, "create", 0)
                          ELSE ProviderCall(credentialsByUserId, c, "delete",
                                            Head(rest))]

\* 4) the create request answered: "created" is HTTP 200 with a token value,
\*    "notoken" HTTP 200 without one, "error" another status
PatCreate(id, answer) ==
  /\ InPat(id, "create")
  /\ PatFrame
  /\ UNCHANGED patSecrets
  /\ LET c == calls[id]
     IN IF answer = "created"
        THEN /\ nextBbId <= MaxBbTokens
             /\ bbTokens' = bbTokens \cup {[id |-> nextBbId, slug |-> c.slug,
                                            name |-> DisplayName(c.userId)]}
             /\ nextBbId' = nextBbId + 1
             /\ IF c.op = "rotate"
                THEN /\ calls' = Delete(calls, id)
                     /\ last' = CallbackReply(c, FALSE)
                ELSE /\ calls' = [calls EXCEPT ![id].pc = "store",
                                                ![id].patValue = nextBbId]
                     /\ last' = NoLast
        ELSE /\ UNCHANGED <<bbTokens, nextBbId>>
             /\ calls' = Delete(calls, id)
             /\ last' = [CallbackReply(c, TRUE) EXCEPT !.failedAt = "create"]

\* patService.create(namespace, pat) answered; the route replies
PatStore(id, stored) ==
  /\ InPat(id, "store")
  /\ PatFrame
  /\ UNCHANGED <<bbTokens, nextBbId>>
  /\ LET c == calls[id]
     IN /\ patSecrets' = IF stored
                         THEN patSecrets \cup
                              {[namespace |-> <<c.subject.userName, "-che">>,
                                cheUserId |-> c.userId, gitProvider |-> NAME,
                                isOauth |-> TRUE, tokenData |-> c.patValue]}
                         ELSE patSecrets
        /\ calls' = Delete(calls, id)
        /\ last' = CallbackReply(c, ~stored)

\* ------------------------------------------------ GET /oauth/1.0/signature
\* mutant: a missing credential is not detected, the header gets no token
computeAuthorizationHeader_NoCheck(userId, requestMethod, urlValid) ==
  IF ~urlValid
  THEN [kind |-> "TypeError", header |-> <<>>]
  ELSE [kind |-> "ok",
        header |-> <<"OAuth", "oauth_signature_method", "RSA-SHA1", "oauth_token",
                     IF userId \in DOMAIN credentialsByUserId
                     THEN credentialsByUserId[userId].token ELSE "">>]

\* computeAuthorizationHeader: throws OAuth1AuthenticationException without a
\* credential; with one, new URL(requestUrl) in normalizeBaseUrl throws a
\* TypeError when requestUrl is not an absolute URL
computeAuthorizationHeader(userId, requestMethod, urlValid) ==
  IF userId \notin DOMAIN credentialsByUserId
  THEN [kind |-> OAuth1Error, header |-> <<>>]
  ELSE IF ~urlValid
  THEN [kind |-> "TypeError", header |-> <<>>]
  ELSE [kind |-> "ok",
        header |-> <<"OAuth", "oauth_signature_method", "RSA-SHA1",
                     "oauth_token", credentialsByUserId[userId].token>>]

\* the method called on its own: the first request is signed with the
\* credential of userId, and nothing is sent when there is none
PatInvoke(userId) ==
  /\ Accept
  /\ UNCHANGED <<oauthTokens, authenticators, configured, systemStatus, stopCalled, shutdownTimer, tempTokenSecrets,
                 credentialsByUserId, registered, bbTokens, nextBbId, patSecrets>>
  /\ LET c == [NoCall EXCEPT !.op = "rotate", !.pc = "whoami", !.userId = userId]
     IN IF computeAuthorizationHeader(userId, "GET", TRUE).kind = OAuth1Error
        THEN /\ last' = [CallbackReply(c, TRUE) EXCEPT !.failedAt = "sign"]
             /\ UNCHANGED calls
        ELSE /\ calls' = Put(calls, nreq + 1,
                            [c EXCEPT !.requests = ProviderCall(
                                         credentialsByUserId, c, "whoami", 0)])
             /\ last' = NoLast

\* route: the 400 answers before the authenticator is called
SignatureRejected(providerName, requestUrl, requestMethod) ==
  \/ providerName = ""
  \/ requestUrl = ""
  \/ requestMethod = ""
  \/ ~getAuthenticator(providerName)

\* requestUrl: "" absent, "abs" an absolute URL, "rel" text new URL() rejects
Signature(subject, providerName, requestUrl, requestMethod) ==
  /\ Accept
  /\ UNCHANGED <<oauthTokens, authenticators, configured, systemStatus, stopCalled, shutdownTimer, tempTokenSecrets, credentialsByUserId, registered,
                 calls, bbTokens, nextBbId, patSecrets>>
  /\ LET base == [NoLast EXCEPT !.op = "signature", !.subject = subject.id,
                    !.hadCred = (subject.id \in DOMAIN credentialsByUserId),
                    !.urlValid = (requestUrl = "abs")]
     IN IF SignatureRejected(providerName, requestUrl, requestMethod)
        THEN last' = [base EXCEPT !.status = 400]
        ELSE LET r == computeAuthorizationHeader(subject.id, requestMethod,
                                                 requestUrl = "abs")
             IN last' = [base EXCEPT !.kind = r.kind, !.header = r.header,
                           !.status = IF r.kind = "ok" THEN 200 ELSE 401]

\* ------------------------------------------------------------ specification
Next ==
  \* the query of an authenticate request and a `state=` parameter in it
  \/ \E subject \in Subjects,
        st \in {EmptyParams} \cup
               {[userId |-> u, oauth_provider |-> NAME,
                 redirect_after_login |-> Dashboard] : u \in {"", "u1"}},
        query \in [userId : Users \cup {""}, oauth_provider : Providers,
                   redirect_after_login : {<<>>, Dashboard}],
        hostOk \in BOOLEAN :
       AuthenticateStart(subject, query, st, hostOk)
  \* the provider's answers to the request-token request
  \/ \E id \in DOMAIN calls,
        resp \in {Response(200, TRUE, "", ""), Response(500, FALSE, "T1", "s1"),
                  Response(200, FALSE, "", "s1"), Response(200, FALSE, "T1", ""),
                  Response(200, FALSE, "T1", "s1"), Response(200, FALSE, "T1", "s2"),
                  Response(200, FALSE, "T2", "s1")} :
       AuthenticateResp(id, resp)
  \* the callback's oauth_token, oauth_verifier and `state` (absent: EmptyParams)
  \/ \E subject \in Subjects, token \in {"T1", "T2", ""},
        verifier \in {"", "v", "denied"},
        st \in {EmptyParams,
                [userId |-> "", oauth_provider |-> "github",
                 redirect_after_login |-> DashboardQ],
                [userId |-> "u1", oauth_provider |-> NAME,
                 redirect_after_login |-> Malformed]}
               \cup [userId : Users \cup {""}, oauth_provider : {NAME},
                     redirect_after_login : {Dashboard, DashboardQ}],
        hostOk \in BOOLEAN :
       CallbackStart(subject, token, verifier, st, hostOk)
  \* the provider's answers to the access-token request
  \/ \E id \in DOMAIN calls,
        resp \in {Response(200, TRUE, "", ""), Response(500, FALSE, "a1", "x1"),
                  Response(200, FALSE, "", "x1"), Response(200, FALSE, "a1", "x1"),
                  Response(200, FALSE, "a2", "")} :
       CallbackResp(id, resp)
  \/ \E id \in DOMAIN calls, username \in BbSlugs \cup {""} : PatWhoami(id, username)
  \/ \E id \in DOMAIN calls, answer \in {"match", "nomatch", "error"} : PatUsers(id, answer)
  \/ \E id \in DOMAIN calls, status \in {200, 500} : PatList(id, status)
  \/ \E id \in DOMAIN calls, status \in {204, 404, 403} : PatDelete(id, status)
  \/ \E id \in DOMAIN calls, answer \in {"created", "notoken", "error"} : PatCreate(id, answer)
  \/ \E id \in DOMAIN calls, stored \in BOOLEAN : PatStore(id, stored)
  \/ \E subject \in Subjects, providerName \in Providers,
        requestUrl \in {"", "abs", "rel"}, requestMethod \in {"", "GET"} :
       Signature(subject, providerName, requestUrl, requestMethod)

Spec == Init /\ [][Next]_vars

\* the state after one completed Leg 1: user u1 holds request token T1, whose
\* registered oauth_callback carries a state with userId=u1
InitAfterLeg1 ==
  /\ configured = TRUE
  /\ SystemInit
  /\ tempTokenSecrets = Put(EmptyMap, "T1", "s1")
  /\ credentialsByUserId = EmptyMap
  /\ registered = Put(EmptyMap, "T1",
                      [user |-> "u1",
                       state |-> [userId |-> "u1", oauth_provider |-> NAME,
                                  redirect_after_login |-> Dashboard]])
  /\ calls = EmptyMap
  /\ nreq = 0
  /\ bbTokens = {}
  /\ nextBbId = 1
  /\ patSecrets = {}
  /\ oauthTokens = EmptyMap
  /\ authenticators = {}
  /\ last = NoLast

SpecAfterLeg1 == InitAfterLeg1 /\ [][Next]_vars


\* ------------------------------------------------------------ properties
StartsWith(str, prefix) ==
  Len(str) >= Len(prefix) /\ SubSeq(str, 1, Len(prefix)) = prefix

\* the value of the error_code parameter a redirect location ends with, "" if none
ErrorCodeOf(location) ==
  IF Len(location) >= 4 /\ location[Len(location) - 2] = "error_code"
     /\ location[Len(location) - 1] = "="
  THEN location[Len(location)]
  ELSE ""

CallbackEnded == last.op = "callback" /\ last.sent

\* C1: a callback whose oauth_token has no entry in tempTokenSecrets when the
\* callback reads it (never issued, or consumed by an earlier callback) ends in
\* OAuth1AuthenticationException and stores no credential, whatever the
\* provider answers to the access-token request.
C1_FailsClosedWithoutSecret ==
  (CallbackEnded /\ ~last.hadSecret) =>
     (last.kind = OAuth1Error /\ ~last.credChanged)

\* C2: of two callbacks racing on one oauth_token, the one that finds the
\* temporary secret consumed when its access-token exchange returns ends in
\* OAuth1AuthenticationException; both never succeed.
C2_RaceLoserFails ==
  (CallbackEnded /\ last.secretGone) => last.kind = OAuth1Error

\* C3: when the provider redirects the browser of the user who started the flow
\* to the oauth_callback registered in Leg 1 and answers the access-token
\* exchange with HTTP 200 and an oauth_token, callback returns that user,
\* stores the credential under that user and deletes the temporary secret.
C3_CompleteFlowSucceeds ==
  (CallbackEnded /\ last.flow /\ last.exchangeOk) =>
     (last.kind = "ok" /\ last.flowDone)

CallbackCalled == last.op = "callback" /\ last.supported /\ last.status # 500

\* C4: callback throws OAuth1AuthenticationException when oauth_token or
\* oauth_verifier is missing and UserDeniedOAuthAuthenticationException when
\* both are present and oauth_verifier is "denied"; in these three cases no
\* request is sent to the provider and neither map changes.
C4_CallbackRequiresParams ==
  CallbackCalled =>
    /\ (last.tokenMissing \/ last.verifier = "") => last.kind = OAuth1Error
    /\ (~last.tokenMissing /\ last.verifier = "denied") => last.kind = UserDenied
    /\ (last.tokenMissing \/ last.verifier \in {"", "denied"}) =>
          (~last.sent /\ ~last.tempChanged /\ ~last.credChanged)

W_C4_Denied ==
  /\ CallbackCalled
  /\ ~last.tokenMissing /\ last.verifier = "denied"
  /\ last.kind = UserDenied /\ ~last.sent

CallbackReplied == last.op \in {"callback", "callback-reply"} /\ last.status # 0

AuthenticateCalled == last.op = "authenticate" /\ last.kind # ""

\* C6 as stated: whenever getAuthenticateUrl returns the authorize URL for
\* oauth_token T, tempTokenSecrets[T] is the oauth_token_secret of the response;
\* whenever it throws, tempTokenSecrets is unchanged.
C6_SecretStoredOnReturn ==
  AuthenticateCalled =>
    /\ last.kind = "ok" =>
         (/\ last.token \in DOMAIN tempTokenSecrets
          /\ tempTokenSecrets[last.token] = last.respSecret)
    /\ last.kind # "ok" => ~last.tempChanged

\* C6 amended: when getAuthenticateUrl returns for T and the response carried a
\* non-empty oauth_token_secret, tempTokenSecrets[T] is that secret; when the
\* response carried none it still returns and tempTokenSecrets is unchanged;
\* whenever it throws, tempTokenSecrets is unchanged.
C6_SecretStoredWhenReturned ==
  AuthenticateCalled =>
    /\ (last.kind = "ok" /\ last.respSecret # "") =>
         (/\ last.token \in DOMAIN tempTokenSecrets
          /\ tempTokenSecrets[last.token] = last.respSecret)
    /\ (last.kind = "ok" /\ last.respSecret = "") => ~last.tempChanged
    /\ last.kind # "ok" => ~last.tempChanged

W_C6_Stored ==
  /\ AuthenticateCalled /\ last.kind = "ok" /\ last.respSecret # ""
  /\ last.tempChanged
  /\ tempTokenSecrets[last.token] = last.respSecret

\* C7: getAuthenticateUrl with a userId parameter that has a value other than
\* currentUserId throws OAuth1AuthenticationException, sends nothing to the
\* provider and leaves tempTokenSecrets alone; without a userId value the
\* oauth_callback it registers carries userId=currentUserId.
C7_UserIdMustMatch ==
  AuthenticateCalled =>
    /\ (last.userId # "" /\ last.userId # last.subject) =>
         (last.kind = OAuth1Error /\ ~last.sent /\ ~last.tempChanged)
    /\ (last.userId = "" /\ last.sent) => last.cbUserId = last.subject

W_C7_Mismatch ==
  /\ AuthenticateCalled
  /\ last.userId # "" /\ last.userId # last.subject
  /\ last.kind = OAuth1Error /\ ~last.sent

SignatureCalled == last.op = "signature" /\ last.status # 400

SignedFor(userId) ==
  <<"OAuth", "oauth_signature_method", "RSA-SHA1", "oauth_token",
    credentialsByUserId[userId].token>>

C9_OneTokenPerName ==
  \A t1 \in bbTokens, t2 \in bbTokens :
     (t1.name = t2.name /\ t1.slug = t2.slug) => t1 = t2

\* C10: a delete of a stale token that fails with a status other than 404
\* aborts the rotation: no further delete and no create request follows it.
C10_DeleteFailureAborts ==
  \A id \in DOMAIN calls : ~calls[id].deleteFailed

\* C11: the Credential Store never holds two active PATs for one user, provider
\* and display name: of the PAT secrets whose token the provider still knows,
\* no two of one user and provider were issued under the same display name.
C11_OnePatPerDisplayName ==
  \A s1 \in patSecrets, s2 \in patSecrets :
    \A t1 \in bbTokens, t2 \in bbTokens :
      (/\ t1.id = s1.tokenData /\ t2.id = s2.tokenData
       /\ s1.cheUserId = s2.cheUserId /\ s1.gitProvider = s2.gitProvider
       /\ t1.name = t2.name)
      => s1 = s2

\* String.prototype.split(ch).length - 1: how often ch occurs in s
RECURSIVE CountOf(_, _)
CountOf(s, ch) ==
  IF s = <<>> THEN 0
  ELSE (IF Head(s) = ch THEN 1 ELSE 0) + CountOf(Tail(s), ch)

\* C15: every redirect of GET /oauth/1.0/callback that carries an error_code
\* appends it with "&" when the redirect target already has a query and with
\* "?" when it has none, so the location never holds a second "?".
C15_ErrorCodeSeparator ==
  (CallbackReplied /\ last.status = 307 /\ ErrorCodeOf(last.location) # "") =>
    LET n == Len(last.location)
        target == SubSeq(last.location, 1, n - 4)
    IN /\ last.location[n - 3] = (IF Includes(target, "?") THEN "&" ELSE "?")
       /\ CountOf(last.location, "?") <= 1


\* =================================================== getRedirectAfterLoginUrl
\* the function applied to redirect_after_login values of up to MaxUrlLen
\* characters and to the values of its unit test
MaxUrlLen == 4

RedirectRaw == <<"https", ":", "/", "/", "x.com", "?", "params", "=", "{", "}">>

RedirectInputs ==
  UNION {[1..n -> {"/", "a", "?", "{", "#", "=", " "}] : n \in 0..MaxUrlLen}
    \cup {RedirectRaw, Malformed,
          <<"https", ":", "/", "/", "x.com", "?", "params", "=",
            "%", "7", "B", "%", "7", "D">>}

\* one call getRedirectAfterLoginUrl(parameters, errorCode)
RedirectCall(redirect, errorCode) ==
  /\ last = NoLast
  /\ UNCHANGED <<oauthTokens, authenticators, configured, systemStatus, stopCalled, shutdownTimer, tempTokenSecrets, credentialsByUserId, registered,
                 calls, nreq, bbTokens, nextBbId, patSecrets>>
  /\ last' = IF RedirectThrows(redirect)
             THEN [NoLast EXCEPT !.op = "getRedirectAfterLoginUrl",
                                 !.redirect = redirect, !.errorCode = errorCode,
                                 !.kind = "TypeError"]
             ELSE [NoLast EXCEPT !.op = "getRedirectAfterLoginUrl",
                                 !.redirect = redirect, !.errorCode = errorCode,
                                 !.kind = "ok",
                                 !.location = getRedirectAfterLoginUrl(redirect, errorCode)]

NextRedirect ==
  \E redirect \in RedirectInputs, errorCode \in {"", "access_denied"} :
     RedirectCall(redirect, errorCode)

SpecRedirect == Init /\ [][NextRedirect]_vars

HasRawBrace(s) == Includes(s, "{") \/ Includes(s, "}")

\* the text between the first "?" and the fragment, as written in the value
RawQuery(urlStr) ==
  LET q == IndexOf(urlStr, "?")
      h == IndexOf(urlStr, "#")
  IN IF q = 0 \/ (h # 0 /\ h < q) THEN <<>>
     ELSE LET h2 == IndexOfFrom(urlStr, "#", q)
          IN TrimEnd(SubSeq(urlStr, q + 1, IF h2 = 0 THEN Len(urlStr) ELSE h2 - 1))

\* C13: a redirect_after_login with a raw brace comes back with its query
\* string percent-encoded as one chunk (the unit test's value gives
\* ...?params%3D%7B%7D), a value without raw braces comes back unchanged, and
\* applying the function to its own result returns that result.
C13_BraceRepairIdempotent ==
  last.op = "getRedirectAfterLoginUrl" /\ last.kind = "ok" /\ last.errorCode = "" =>
    /\ (HasRawBrace(last.redirect) /\ RawQuery(last.redirect) # <<>>) =>
          LET suffix == EncodeURIComponent(RawQuery(last.redirect))
              n == Len(last.location)
          IN /\ n >= Len(suffix)
             /\ SubSeq(last.location, n - Len(suffix) + 1, n) = suffix
    /\ last.redirect = RedirectRaw =>
          last.location = <<"https", ":", "/", "/", "x.com", "?", "params",
                             "%", "3", "D", "%", "7", "B", "%", "7", "D">>
    /\ ~HasRawBrace(last.redirect) => last.location = last.redirect
    /\ ~RedirectThrows(last.location)
    /\ getRedirectAfterLoginUrl(last.location, "") = last.location

\* C14: for a redirect_after_login with a raw brace the result keeps scheme,
\* host and path of the value character for character; only the query changes.
C14_OnlyQueryEncoded ==
  /\ last.op = "getRedirectAfterLoginUrl" /\ last.kind = "ok" /\ last.errorCode = ""
  /\ HasRawBrace(last.redirect)
  => LET q == IndexOf(last.redirect, "?")
         h == IndexOf(last.redirect, "#")
         e == IF q = 0 /\ h = 0 THEN Len(last.redirect)
              ELSE IF q = 0 THEN h - 1
              ELSE IF h = 0 THEN q - 1
              ELSE (IF q < h THEN q ELSE h) - 1
     IN StartsWith(last.location, SubSeq(last.redirect, 1, e))

\* ============================================================ OAuth 2.0 engine
\* registerOAuthRoutes: GET /oauth/authenticate, GET /oauth/callback and
\* DELETE /oauth/token.  Strings of this part are sequences of tokens, the
\* empty string (and an absent parameter) is <<>>.

\* subjects of a request: none, alice, bob, and a session whose user name is
\* empty (a gap-auth header "@x", a test bearer token "id:")
Sessions ==
  {NoSession, Session(<<"alice">>), Session(<<"bob">>), Session(<<>>),
   Session(<<"anonymous">>)}

Anonymous == <<"anonymous">>

\* `a || b` on strings
OrElse(a, b) == IF a = <<>> THEN b ELSE a

\* ----------------------------------------------------------- JSON and base64
Quote == "\""

Backslash == "\\"

\* JSON.stringify of a string: quotes and backslashes are escaped
RECURSIVE JsonEscape(_)
JsonEscape_None(s) == s

JsonEscape(s) ==
  IF s = <<>> THEN <<>>
  ELSE (IF Head(s) \in {Quote, Backslash} THEN <<Backslash, Head(s)>> ELSE <<Head(s)>>)
       \o JsonEscape(Tail(s))

RECURSIVE JsonMembers(_, _)
JsonMembers(obj, keys) ==
  IF keys = <<>> THEN <<>>
  ELSE <<Quote, Head(keys), Quote, ":", Quote>> \o JsonEscape(obj[Head(keys)])
       \o <<Quote>>
       \o (IF Len(keys) > 1 THEN <<",">> ELSE <<>>)
       \o JsonMembers(obj, Tail(keys))

\* JSON.stringify of an object whose values are strings, keys in insertion order
JsonStringify(obj, keys) == <<"{">> \o JsonMembers(obj, keys) \o <<"}">>

\* JSON.parse, string literal: text[j..] after the opening quote
RECURSIVE ReadString(_, _, _)
ReadString(text, j, acc) ==
  IF j > Len(text) THEN [ok |-> FALSE, value |-> <<>>, next |-> j]
  ELSE IF text[j] = Quote THEN [ok |-> TRUE, value |-> acc, next |-> j + 1]
  ELSE IF text[j] = Backslash
  THEN IF j + 1 <= Len(text) /\ text[j + 1] \in {Quote, Backslash}
       THEN ReadString(text, j + 2, Append(acc, text[j + 1]))
       ELSE [ok |-> FALSE, value |-> <<>>, next |-> j]
  ELSE ReadString(text, j + 1, Append(acc, text[j]))

JsonFailure == [ok |-> FALSE, kind |-> "SyntaxError", value |-> [x \in {} |-> <<>>]]

\* JSON.parse, members of an object: "key":"value" pairs up to the closing brace
RECURSIVE ParseMembers(_, _, _)
ParseMembers(text, i, acc) ==
  IF i > Len(text) \/ text[i] # Quote THEN JsonFailure
  ELSE LET k == ReadString(text, i + 1, <<>>)
       IN IF ~k.ok \/ Len(k.value) # 1 \/ k.next + 1 > Len(text)
             \/ text[k.next] # ":" \/ text[k.next + 1] # Quote
          THEN JsonFailure
          ELSE LET v == ReadString(text, k.next + 2, <<>>)
                   obj == [x \in DOMAIN acc \cup {k.value[1]} |->
                             IF x = k.value[1] THEN v.value ELSE acc[x]]
               IN IF ~v.ok \/ v.next > Len(text) THEN JsonFailure
                  ELSE IF text[v.next] = "}"
                  THEN IF v.next = Len(text)
                       THEN [ok |-> TRUE, kind |-> "object", value |-> obj]
                       ELSE JsonFailure
                  ELSE IF text[v.next] = ","
                  THEN ParseMembers(text, v.next + 1, obj)
                  ELSE JsonFailure

\* JSON.parse of an object of strings, of null or of a number; a SyntaxError
\* for any other text
JsonParse(text) ==
  IF text = <<"null">> THEN [JsonFailure EXCEPT !.ok = TRUE, !.kind = "null"]
  ELSE IF text = <<"1">> THEN [JsonFailure EXCEPT !.ok = TRUE, !.kind = "number"]
  ELSE IF text = <<"{", "}">> THEN [JsonFailure EXCEPT !.ok = TRUE, !.kind = "object"]
  ELSE IF Len(text) >= 2 /\ text[1] = "{" THEN ParseMembers(text, 2, [x \in {} |-> <<>>])
  ELSE JsonFailure

\* Buffer.from(state, 'base64').toString(): the encoded text, or the bytes the
\* lenient decoder makes of a string that is not base64
Base64Decode(str) == IF str.enc = "base64" THEN str.text ELSE <<"\\uFFFD">>

\* the characters of the string itself
CharsOf(str) == IF str.enc = "base64" THEN <<"base64chars">> ELSE str.text

\* --------------------------------------------------------- percent decoding
PercentCode(a, b) ==
  CASE a = "3" /\ b = "D" -> "="
    [] a = "7" /\ b = "B" -> "{"
    [] a = "7" /\ b = "D" -> "}"
    [] a = "2" /\ b = "6" -> "&"
    [] a = "3" /\ b = "F" -> "?"
    [] a = "2" /\ b = "F" -> "/"
    [] a = "3" /\ b = "A" -> ":"
    [] a = "2" /\ b = "3" -> "#"
    [] a = "2" /\ b = "5" -> "%"
    [] a = "2" /\ b = "0" -> " "
    [] OTHER -> ""

\* decodeURIComponent throws a URIError on a "%" that starts no escape
RECURSIVE Malformed_URI(_, _)
Malformed_URI(s, i) ==
  IF i > Len(s) THEN FALSE
  ELSE IF s[i] = "%"
  THEN (IF i + 2 <= Len(s) /\ PercentCode(s[i + 1], s[i + 2]) # ""
        THEN Malformed_URI(s, i + 3) ELSE TRUE)
  ELSE Malformed_URI(s, i + 1)

\* percent decoding; a "%" that starts no escape is kept (URLSearchParams)
RECURSIVE PercentDecode(_, _)
PercentDecode(s, i) ==
  IF i > Len(s) THEN <<>>
  ELSE IF s[i] = "%" /\ i + 2 <= Len(s) /\ PercentCode(s[i + 1], s[i + 2]) # ""
  THEN <<PercentCode(s[i + 1], s[i + 2])>> \o PercentDecode(s, i + 3)
  ELSE <<s[i]>> \o PercentDecode(s, i + 1)

\* new URLSearchParams(text).get(key): the value of the first pair named key,
\* percent-decoded; <<>> when there is none
RECURSIVE SearchParamsGet(_, _)
SearchParamsGet(text, key) ==
  IF text = <<>> THEN <<>>
  ELSE LET amp == IndexOf(text, "&")
           pair == IF amp = 0 THEN text ELSE SubSeq(text, 1, amp - 1)
           rest == IF amp = 0 THEN <<>> ELSE SubSeq(text, amp + 1, Len(text))
           eq == IndexOf(pair, "=")
           k == IF eq = 0 THEN pair ELSE SubSeq(pair, 1, eq - 1)
           v == IF eq = 0 THEN <<>> ELSE SubSeq(pair, eq + 1, Len(pair))
       IN IF PercentDecode(k, 1) = <<key>> THEN PercentDecode(v, 1)
          ELSE SearchParamsGet(rest, key)

\* ------------------------------------------------------- the state parameter
DefaultRedirectUrl_Empty == <<>>
DefaultRedirectUrl == <<"/">>

DashboardRoute == <<"/", "dashboard", "/">>

CheSuffix == <<"-che">>

\* GET /oauth/authenticate: the state built for a subject, a provider and a
\* redirect_after_login
BuildState(subject, provider, redirect) ==
  LET userId == OrElse(subject.userId, Anonymous)
      userName == OrElse(subject.userName, Anonymous)
      stateData == [redirect_after_login |-> OrElse(redirect, DashboardRoute),
                    oauth_provider |-> provider,
                    userId |-> userId,
                    userName |-> userName,
                    namespace |-> userName \o CheSuffix]
  IN Base64Encode(JsonStringify(stateData,
                                  <<"redirect_after_login", "oauth_provider", "userId",
                                    "userName", "namespace">>))

\* what the callback holds before it looks at the state
StateDefaults ==
  [redirectUrl |-> DefaultRedirectUrl, oauthProvider |-> <<"github">>,
   userId |-> Anonymous, userName |-> Anonymous, namespace |-> <<>>]

\* GET /oauth/callback: redirect target, provider and user context decoded from
\* the state: base64 JSON first, the URL-encoded format when that throws, the
\* defaults when both throw or the state is missing.  A member the object does
\* not have is undefined (here <<>>); URLSearchParams drops a leading "?".
DecodeState(state) ==
  IF CharsOf(state) = <<>> THEN StateDefaults
  ELSE LET json == JsonParse(Base64Decode(state))
           chars == CharsOf(state)
           decodedChars == PercentDecode(chars, 1)
           params == IF decodedChars # <<>> /\ Head(decodedChars) = "?"
                     THEN Tail(decodedChars) ELSE decodedChars
           Member(obj, key) == IF key \in DOMAIN obj THEN obj[key] ELSE <<>>
       IN IF json.ok /\ json.kind # "null"
          THEN LET userName == OrElse(Member(json.value, "userName"), Anonymous)
               IN [redirectUrl |-> OrElse(Member(json.value, "redirect_after_login"),
                                          DefaultRedirectUrl),
                   oauthProvider |-> OrElse(Member(json.value, "oauth_provider"),
                                            <<"github">>),
                   userId |-> OrElse(Member(json.value, "userId"), Anonymous),
                   userName |-> userName,
                   namespace |-> OrElse(Member(json.value, "namespace"),
                                        userName \o CheSuffix)]
          ELSE IF Malformed_URI(chars, 1) THEN StateDefaults
          ELSE [StateDefaults EXCEPT
                  !.redirectUrl = OrElse(SearchParamsGet(params, "redirect_after_login"),
                                         DefaultRedirectUrl),
                  !.oauthProvider = OrElse(SearchParamsGet(params, "oauth_provider"),
                                           <<"github">>)]

\* ------------------------------------------------------------ authenticators
\* the authenticators of OAuthService: none, or four; an authenticator has a
\* name, a client id or none, and an authorization endpoint that is a URL or not
OAuth2Configs ==
  { {},
    { [name |-> <<"github">>, clientId |-> TRUE, endpointIsUrl |-> TRUE],
      [name |-> <<"gitlab">>, clientId |-> TRUE, endpointIsUrl |-> TRUE],
      [name |-> <<"bitbucket">>, clientId |-> FALSE, endpointIsUrl |-> TRUE],
      [name |-> <<"azure-devops">>, clientId |-> TRUE, endpointIsUrl |-> FALSE] } }

\* GET /oauth/authenticate; the handler reads no state but the authenticators
\* and writes none, one request is looked at
OAuth2Authenticate(subject, provider, redirect) ==
  /\ last = NoLast
  /\ Accept
  /\ UNCHANGED <<configured, systemStatus, stopCalled, shutdownTimer, tempTokenSecrets, credentialsByUserId, registered, calls,
                 bbTokens, nextBbId, patSecrets, oauthTokens, authenticators>>
  /\ LET reply == [NoLast EXCEPT !.op = "oauth2-authenticate", !.session = subject,
                                 !.provider = provider, !.redirect = redirect]
         found == {a \in authenticators : a.name = provider}
     IN last' = IF provider = <<>> \/ found = {}
                THEN [reply EXCEPT !.status = 400]
                ELSE IF \E a \in found : ~a.endpointIsUrl
                THEN [reply EXCEPT !.status = 500]
                ELSE [reply EXCEPT !.status = 302,
                                   !.state = BuildState(subject, provider, redirect)]

\* ------------------------------------------------------------ Credential Store
\* A PAT secret of the store: its namespace, its name, the annotations read
\* back by PatLookupService and its token data (a base64 string).  isOauth
\* stands for a name annotation that starts with "oauth2-".
PatSecret(namespace, tokenName, cheUserId, gitProvider, endpoint, isOauth, token) ==
  [namespace |-> namespace, tokenName |-> tokenName, cheUserId |-> cheUserId,
   gitProvider |-> gitProvider, gitProviderEndpoint |-> endpoint,
   isOauth |-> isOauth, tokenData |-> Base64Encode(token)]

\* PersonalAccessTokenService.create(namespace, pat): the backing secret is written
patServiceCreate(store, pat) == store \cup {pat}

\* PersonalAccessTokenService.delete(namespace, tokenName): the backing secret
\* is removed
patServiceDelete(store, namespace, tokenName) ==
  {s \in store : ~(s.namespace = namespace /\ s.tokenName = tokenName)}

\* OAuthService.storeToken(userId, provider, token): the token cache keeps one
\* token per user and provider
storeToken(cache, userId, provider, token) == Put(cache, <<userId, provider>>, token)

\* OAuthService.invalidateToken(userId, provider): the cached token, if any, is dropped
invalidateToken(cache, userId, provider) ==
  IF <<userId, provider>> \in DOMAIN cache THEN Delete(cache, <<userId, provider>>)
  ELSE cache

\* the order in which the store lists the secrets of a namespace (by name)
NameOrder == <<"m0", "m1", "m2", "r1", "r2">>

AliceNamespace == <<"alice">> \o CheSuffix

\* stores the routes may find: empty; a user-supplied PAT of alice; an OAuth
\* PAT of alice; alice's user-supplied PAT next to an OAuth PAT annotated
\* "GitHub" and an OAuth PAT that another user id owns
OAuth2Stores ==
  { {},
    { PatSecret(AliceNamespace, "m0", <<"alice">>, <<"github">>,
                <<"https://github.com">>, FALSE, <<"ghp_user">>) },
    { PatSecret(AliceNamespace, "m1", <<"alice">>, <<"github">>,
                <<"https://github.com">>, TRUE, <<"gho_0">>) },
    { PatSecret(AliceNamespace, "m0", <<"alice">>, <<"github">>,
                <<"https://github.com">>, FALSE, <<"ghp_user">>),
      PatSecret(AliceNamespace, "m1", <<"alice">>, <<"GitHub">>,
                <<"https://github.com">>, TRUE, <<"gho_0">>),
      PatSecret(AliceNamespace, "m2", <<"bob">>, <<"github">>,
                <<"https://github.com">>, TRUE, <<"gho_b">>) } }

\* String.prototype.toLowerCase
Lower(s) ==
  LET LowerToken(c) ==
        CASE c = "GitHub" -> "github"
          [] c = "GitLab" -> "gitlab"
          [] c = "GITHUB.COM" -> "github.com"
          [] c = "GitHub.com" -> "github.com"
          [] c = "HTTPS" -> "https"
          [] c = "ACME" -> "acme"
          [] c = "PROJ" -> "proj"
          [] c = "HEAD" -> "head"
          [] OTHER -> c
  IN [i \in 1..Len(s) |-> LowerToken(s[i])]

\* requests looked at per handler
MaxCallbacks == 1

MaxRevokes == 2

InitOAuth2(stores, caches, configs) ==
  /\ configured = FALSE
  /\ SystemInit
  /\ tempTokenSecrets = EmptyMap
  /\ credentialsByUserId = EmptyMap
  /\ registered = EmptyMap
  /\ calls = EmptyMap
  /\ nreq = 0
  /\ bbTokens = {}
  /\ nextBbId = 1
  /\ patSecrets \in stores
  /\ oauthTokens \in caches
  /\ authenticators \in configs
  /\ last = NoLast

OAuth2Frame ==
  UNCHANGED <<configured, systemStatus, stopCalled, shutdownTimer, tempTokenSecrets, credentialsByUserId, registered,
              bbTokens, nextBbId, authenticators>>

NoOAuth2Call ==
  [op |-> "", pc |-> "", n |-> 0, alone |-> FALSE, session |-> NoSession,
   state |-> RawString(<<>>), code |-> <<>>, provider |-> <<>>,
   redirectUrl |-> <<>>, userId |-> <<>>, userName |-> <<>>, namespace |-> <<>>,
   exchange |-> "", token |-> <<>>, tokenName |-> "",
   toDelete |-> <<>>, startedRevoked |-> FALSE,
   before |-> <<{}, EmptyMap>>]

\* ---------------------------------------------------------- GET /oauth/callback
\* the token endpoint the callback knows for a provider; <<>> for none
TokenEndpoint(provider) ==
  CASE provider = <<"github">> -> <<"https://github.com/login/oauth/access_token">>
    [] provider = <<"gitlab">> -> <<"https://gitlab.com/oauth/token">>
    [] provider = <<"bitbucket">> -> <<"https://bitbucket.org/site/oauth2/access_token">>
    [] OTHER -> <<>>

\* the provider endpoint a PAT is tagged with
DefaultEndpoint_GitHub(provider) == <<"https://github.com">>
DefaultEndpoint(provider) ==
  CASE provider = <<"gitlab">> -> <<"https://gitlab.com">>
    [] provider = <<"bitbucket">> -> <<"https://bitbucket.org">>
    [] provider = <<"azure-devops">> -> <<"https://dev.azure.com">>
    [] OTHER -> <<"https://github.com">>

\* user context of the callback: the one decoded from the state, replaced by
\* the session's when the request has a subject with a user name
CallbackContext_StateOnly(subject, decoded) == decoded
CallbackContext(subject, decoded) ==
  IF subject.present /\ subject.userName # <<>>
  THEN [decoded EXCEPT !.userName = subject.userName,
                       !.userId = subject.userId,
                       !.namespace = subject.userName \o CheSuffix]
  ELSE decoded

\* states that are neither base64 JSON of an object nor a query with a
\* redirect_after_login, and the missing state
GarbledStates ==
  {RawString(<<>>), RawString(<<"garbage">>), RawString(<<"%", "z">>),
   RawString(<<"a", "=", "%", "7">>),
   Base64Encode(<<"null">>), Base64Encode(<<"{", Quote, "oops">>)}

\* the states of the callback requests; (code, error) are drawn in the
\* next-state relation
OAuth2CallbackStates ==
  GarbledStates
    \cup {BuildState(Session(<<"alice">>), <<"github">>, DashboardRoute),
          BuildState(Session(<<"bob">>), <<"gitlab">>, <<>>),
          BuildState(NoSession, <<"github">>, DashboardRoute),
          BuildState(Session(<<"alice">>), <<"azure-devops">>, DashboardRoute),
          BuildState(Session(<<"alice">>), <<"bitbucket">>, DashboardRoute),
          Base64Encode(<<"1">>),
          Base64Encode(JsonStringify([userName |-> <<"alice">>], <<"userName">>)),
          Base64Encode(JsonStringify([userId |-> <<"alice">>], <<"userId">>)),
          RawString(<<"redirect_after_login", "=", "/", "w", "&",
                      "oauth_provider", "=", "gitlab">>),
          RawString(<<"redirect_after_login", "%", "3", "D", "%", "2", "F", "w">>)}

OAuth2CallbackReply(c) ==
  [NoLast EXCEPT !.op = "oauth2-callback", !.session = c.session, !.state = c.state,
                 !.code = c.code, !.provider = c.provider,
                 !.exchange = c.exchange, !.status = 302, !.location = c.redirectUrl]

\* handler up to the token request: the 400 answers, the state, the user
\* context and the authenticator; the redirect at once when no token is asked for
OAuth2CallbackStart(subject, query, state) ==
  /\ nreq < MaxCallbacks
  /\ Cardinality(DOMAIN calls) < MaxInFlight
  /\ nreq' = nreq + 1
  /\ OAuth2Frame
  /\ UNCHANGED <<patSecrets, oauthTokens>>
  /\ LET code == query[1]
         error == query[2]
         ctx == CallbackContext(subject, DecodeState(state))
         found == {a \in authenticators : a.name = ctx.oauthProvider}
         c == [NoOAuth2Call EXCEPT !.op = "oauth2-callback", !.pc = "exchange",
                                   !.n = nreq', !.session = subject, !.state = state,
                                   !.code = code, !.provider = ctx.oauthProvider,
                                   !.redirectUrl = ctx.redirectUrl,
                                   !.userId = ctx.userId, !.userName = ctx.userName,
                                   !.namespace = ctx.namespace]
     IN IF error # <<>> \/ code = <<>>
        THEN /\ last' = [NoLast EXCEPT !.op = "oauth2-callback", !.session = subject,
                                       !.state = state, !.code = code,
                                       !.oauthError = error, !.status = 400]
             /\ UNCHANGED calls
        ELSE IF (\E a \in found : a.clientId) /\ TokenEndpoint(ctx.oauthProvider) # <<>>
        THEN /\ calls' = Put(calls, nreq', c)
             /\ last' = NoLast
        ELSE /\ last' = OAuth2CallbackReply(c)
             /\ UNCHANGED calls

\* the answer of the token endpoint: an access token, an error, a body with
\* neither, or a failed request; the token goes to the token cache when the
\* user is anonymous or there is no namespace
OAuth2Exchange(id, outcome, tokenName) ==
  /\ id \in DOMAIN calls /\ calls[id].op = "oauth2-callback" /\ calls[id].pc = "exchange"
  /\ OAuth2Frame
  /\ UNCHANGED <<nreq, patSecrets>>
  /\ LET c == [calls[id] EXCEPT !.exchange = outcome]
     IN IF outcome # "token"
        THEN /\ calls' = Delete(calls, id)
             /\ last' = OAuth2CallbackReply(c)
             /\ UNCHANGED oauthTokens
        ELSE IF c.userName # Anonymous /\ c.namespace # <<>>
        THEN /\ calls' = Put(calls, id, [c EXCEPT !.pc = "store", !.token = <<"gho_1">>,
                                                  !.tokenName = tokenName])
             /\ last' = NoLast
             /\ UNCHANGED oauthTokens
        ELSE /\ oauthTokens' = storeToken(oauthTokens, c.userId, c.provider, <<"gho_1">>)
             /\ calls' = Delete(calls, id)
             /\ last' = [OAuth2CallbackReply(c) EXCEPT !.cached = TRUE]

\* patService.create answers: the secret is written, or the call fails (it
\* fails when the namespace has a secret of that name)
OAuth2Store(id, stored) ==
  /\ id \in DOMAIN calls /\ calls[id].op = "oauth2-callback" /\ calls[id].pc = "store"
  /\ OAuth2Frame
  /\ UNCHANGED <<nreq, oauthTokens>>
  /\ LET c == calls[id]
         pat == PatSecret(c.namespace, c.tokenName, c.userId, c.provider,
                          DefaultEndpoint(c.provider), TRUE, c.token)
     IN /\ stored => ~\E s \in patSecrets :
                        s.namespace = c.namespace /\ s.tokenName = c.tokenName
        /\ patSecrets' = IF stored THEN patServiceCreate(patSecrets, pat) ELSE patSecrets
        /\ calls' = Delete(calls, id)
        /\ last' = [OAuth2CallbackReply(c) EXCEPT !.pat = IF stored THEN pat ELSE NoPat]

\* ----------------------------------------------------------- DELETE /oauth/token
\* the filter of the PATs to delete
RevokeMatches_AnyPat(p, oauthProvider, userId) ==
  Lower(p.gitProvider) = Lower(oauthProvider) /\ p.cheUserId = userId
RevokeMatches(p, oauthProvider, userId) ==
  /\ p.isOauth
  /\ Lower(p.gitProvider) = Lower(oauthProvider)
  /\ p.cheUserId = userId

\* the user holds no token of the provider: none in the cache, no OAuth PAT
\* in the user's namespace
NothingToRevoke(subject, oauthProvider, store, cache) ==
  /\ <<subject.userId, oauthProvider>> \notin DOMAIN cache
  /\ ~\E s \in store :
        /\ s.namespace = subject.userName \o CheSuffix
        /\ s.isOauth
        /\ s.cheUserId = subject.userId
        /\ Lower(s.gitProvider) = Lower(oauthProvider)

OAuth2RevokeReply(c, clean) ==
  [NoLast EXCEPT !.op = "oauth2-revoke", !.session = c.session, !.provider = c.provider,
                 !.status = 204, !.clean = clean,
                 !.sequential = c.alone /\ c.n = nreq,
                 !.startedRevoked = c.startedRevoked,
                 !.changed = <<patSecrets', oauthTokens'>> # c.before,
                 !.revoked = last.revoked \cup {<<c.userId, c.provider>>}]

\* handler up to the listing of the PATs: 401, 400, the cache entry dropped
OAuth2RevokeStart(subject, oauthProvider) ==
  /\ nreq < MaxRevokes
  /\ Cardinality(DOMAIN calls) < MaxInFlight
  /\ nreq' = nreq + 1
  /\ OAuth2Frame
  /\ UNCHANGED patSecrets
  /\ IF ~subject.present \/ oauthProvider = <<>>
     THEN /\ last' = [NoLast EXCEPT !.op = "oauth2-revoke", !.session = subject,
                                    !.provider = oauthProvider,
                                    !.revoked = last.revoked,
                                    !.status = IF ~subject.present THEN 401 ELSE 400]
          /\ UNCHANGED <<calls, oauthTokens>>
     ELSE /\ oauthTokens' = invalidateToken(oauthTokens, subject.userId, oauthProvider)
          /\ calls' = Put(calls, nreq',
                          [NoOAuth2Call EXCEPT
                             !.op = "oauth2-revoke", !.pc = "list", !.n = nreq',
                             !.alone = DOMAIN calls = {},
                             !.session = subject, !.provider = oauthProvider,
                             !.namespace = subject.userName \o CheSuffix,
                             !.userId = subject.userId,
                             !.startedRevoked =
                               NothingToRevoke(subject, oauthProvider, patSecrets, oauthTokens),
                             !.before = <<patSecrets, oauthTokens>>])
          /\ last' = [NoLast EXCEPT !.revoked = last.revoked]

\* getAllPats answers: the PATs, or an error (logged, then 204); the names of
\* the PATs that pass the filter are kept in list order
OAuth2RevokeList(id, listed) ==
  /\ id \in DOMAIN calls /\ calls[id].op = "oauth2-revoke" /\ calls[id].pc = "list"
  /\ OAuth2Frame
  /\ UNCHANGED <<nreq, patSecrets, oauthTokens>>
  /\ LET c == calls[id]
         names == SelectSeq(NameOrder,
                            LAMBDA name : \E s \in patSecrets :
                                            /\ s.namespace = c.namespace
                                            /\ s.tokenName = name
                                            /\ RevokeMatches(s, c.provider, c.userId))
     IN IF listed /\ names # <<>>
        THEN /\ calls' = Put(calls, id, [c EXCEPT !.pc = "delete", !.toDelete = names])
             /\ last' = [NoLast EXCEPT !.revoked = last.revoked]
        ELSE /\ calls' = Delete(calls, id)
             /\ last' = OAuth2RevokeReply(c, listed)

\* patService.delete answers for the next PAT: the secret is removed, or the
\* call fails (logged, the rest is kept, then 204)
OAuth2RevokeDelete(id, deleted) ==
  /\ id \in DOMAIN calls /\ calls[id].op = "oauth2-revoke" /\ calls[id].pc = "delete"
  /\ OAuth2Frame
  /\ UNCHANGED <<nreq, oauthTokens>>
  /\ LET c == calls[id]
         name == Head(c.toDelete)
     IN /\ deleted => \E s \in patSecrets :
                         s.namespace = c.namespace /\ s.tokenName = name
        /\ patSecrets' = IF deleted THEN patServiceDelete(patSecrets, c.namespace, name)
                         ELSE patSecrets
        /\ IF deleted /\ Len(c.toDelete) > 1
           THEN /\ calls' = Put(calls, id, [c EXCEPT !.toDelete = Tail(c.toDelete)])
                /\ last' = [NoLast EXCEPT !.revoked = last.revoked]
           ELSE /\ calls' = Delete(calls, id)
                /\ last' = OAuth2RevokeReply(c, deleted)

NextOAuth2Authenticate ==
  \E subject \in Sessions,
     provider \in {<<>>, <<"github">>, <<"gitlab">>, <<"bitbucket">>, <<"azure-devops">>},
     redirect \in {<<>>, DashboardRoute,
                   <<"/", "w", Quote, "a", Backslash, ",", Quote, ":", "}">>} :
    OAuth2Authenticate(subject, provider, redirect)

SpecOAuth2Authenticate ==
  InitOAuth2({{}}, {EmptyMap}, OAuth2Configs) /\ [][NextOAuth2Authenticate]_vars

NextOAuth2Callback ==
  \/ \E subject \in Sessions,
        query \in {<<<<>>, <<>>>>, <<<<"c0">>, <<>>>>, <<<<"c0">>, <<"access_denied">>>>,
                   <<<<>>, <<"access_denied">>>>},
        state \in OAuth2CallbackStates :
       OAuth2CallbackStart(subject, query, state)
  \/ \E id \in DOMAIN calls, outcome \in {"token", "error", "other", "throw"}, tokenName \in {"r1", "r2"} :
       OAuth2Exchange(id, outcome, tokenName)
  \/ \E id \in DOMAIN calls, stored \in BOOLEAN : OAuth2Store(id, stored)

SpecOAuth2Callback ==
  InitOAuth2({{}}, {EmptyMap}, OAuth2Configs) /\ [][NextOAuth2Callback]_vars

NextOAuth2Revoke ==
  \/ \E subject \in Sessions,
        oauthProvider \in {<<>>, <<"github">>, <<"GitHub">>, <<"gitlab">>} :
       OAuth2RevokeStart(subject, oauthProvider)
  \/ \E id \in DOMAIN calls, listed \in BOOLEAN : OAuth2RevokeList(id, listed)
  \/ \E id \in DOMAIN calls, deleted \in BOOLEAN : OAuth2RevokeDelete(id, deleted)

SpecOAuth2Revoke ==
  InitOAuth2(OAuth2Stores,
             {EmptyMap, Put(EmptyMap, <<<<"alice">>, <<"github">>>>, <<"gho_c">>)},
             {{}})
    /\ [][NextOAuth2Revoke]_vars

C16_StateRoundTrip ==
  last.op = "oauth2-authenticate" /\ last.status = 302 =>
    LET decoded == DecodeState(last.state)
        userName == OrElse(last.session.userName, Anonymous)
    IN /\ decoded.redirectUrl = OrElse(last.redirect, DashboardRoute)
       /\ decoded.oauthProvider = last.provider
       /\ decoded.userId = OrElse(last.session.userId, Anonymous)
       /\ decoded.userName = userName
       /\ decoded.namespace = userName \o CheSuffix

W_C16_QuotedRedirect ==
  /\ last.op = "oauth2-authenticate" /\ last.status = 302
  /\ last.session = Session(<<"alice">>) /\ last.provider = <<"gitlab">>
  /\ Includes(last.redirect, Quote) /\ Includes(last.redirect, Backslash)
  /\ DecodeState(last.state).redirectUrl = last.redirect
  /\ DecodeState(last.state).namespace = <<"alice", "-che">>

\* a callback request with a code and no provider error was answered
OAuth2CallbackReplied ==
  /\ last.op = "oauth2-callback" /\ last.status # 0
  /\ last.code # <<>> /\ last.oauthError = <<>>

\* C17: a callback with a code and a missing or garbled state is answered 302
\* to the default redirect "/".
C17_GarbledStateRedirects ==
  OAuth2CallbackReplied /\ last.state \in GarbledStates =>
    last.status = 302 /\ last.location = <<"/">>

W_C17_MalformedEscape ==
  /\ OAuth2CallbackReplied
  /\ last.state = RawString(<<"%", "z">>)
  /\ last.status = 302 /\ last.location = <<"/">>

\* C18: a callback with a code and no provider error is answered 302 whatever
\* the token exchange and the PAT store answer; a PAT is written only after the
\* exchange returned an access token, as an OAuth PAT tagged with the default
\* endpoint of its provider.
C18_ExchangeFailureFallsThrough ==
  OAuth2CallbackReplied =>
    /\ last.status = 302
    /\ last.pat # NoPat =>
         /\ last.exchange = "token"
         /\ last.pat \in patSecrets
         /\ last.pat.isOauth
         /\ <<last.pat.gitProvider, last.pat.gitProviderEndpoint>> \in
              { <<<<"github">>, <<"https://github.com">>>>,
                <<<<"gitlab">>, <<"https://gitlab.com">>>>,
                <<<<"bitbucket">>, <<"https://bitbucket.org">>>>,
                <<<<"azure-devops">>, <<"https://dev.azure.com">>>> }

W_C18_StoreFailed ==
  /\ OAuth2CallbackReplied /\ last.status = 302
  /\ last.exchange = "token" /\ ~last.cached
  /\ last.pat = NoPat /\ patSecrets = {}
  /\ last.location = DashboardRoute

\* C19 as stated: a PAT stored by a callback that carries a session has the
\* session's userId and lies in the namespace "<session userName>-che".
C19_SessionIdentityWins ==
  OAuth2CallbackReplied /\ last.session.present /\ last.pat # NoPat =>
    /\ last.pat.cheUserId = last.session.userId
    /\ last.pat.namespace = last.session.userName \o CheSuffix

\* C19 amended: a PAT stored by a callback that carries a session with a
\* non-empty user name has the session's userId and lies in the namespace
\* "<session userName>-che", whatever identity the state carries.
C19_NamedSessionIdentityWins ==
  OAuth2CallbackReplied /\ last.session.present /\ last.session.userName # <<>>
      /\ last.pat # NoPat =>
    /\ last.pat.cheUserId = last.session.userId
    /\ last.pat.namespace = last.session.userName \o CheSuffix

W_C19_StateNamesAnotherUser ==
  /\ OAuth2CallbackReplied
  /\ last.session = Session(<<"bob">>)
  /\ DecodeState(last.state).userId = <<"alice">>
  /\ last.pat # NoPat
  /\ last.pat.cheUserId = <<"bob">> /\ last.pat.namespace = <<"bob", "-che">>

\* ============================================================ PatLookupService
\* getPatForProvider(namespace, scmProvider, scmUrl?) over the secrets that the
\* listing of the namespace returns.  URLs are token sequences: a scheme, ":",
\* "/", "/", a host, then ":" and a port or a path.
MaxSecrets == 2

\* a secret without token data has the data RawString(<<>>)

\* the PatInfo returned; NoPatInfo stands for null
NoPatInfo ==
  [tokenName |-> "", tokenData |-> <<>>, gitProvider |-> <<>>,
   gitProviderEndpoint |-> <<>>, cheUserId |-> <<>>, isOauth |-> FALSE]

\* a trailing run of "/" is removed
RECURSIVE StripTrailingSlashes(_)
StripTrailingSlashes(s) ==
  IF s # <<>> /\ s[Len(s)] = "/" THEN StripTrailingSlashes(SubSeq(s, 1, Len(s) - 1))
  ELSE s

\* normalizeUrl(url): new URL(url) succeeds on scheme://host... and throws
\* without a scheme; URL.host is the host with the port unless it is the
\* default port of the scheme
normalizeUrl(url) ==
  LET scheme == IF url = <<>> THEN <<>> ELSE Lower(<<url[1]>>)
      parses == /\ Len(url) >= 5
                /\ scheme \in {<<"http">>, <<"https">>}
                /\ url[2] = ":" /\ url[3] = "/" /\ url[4] = "/"
                /\ url[5] \notin {"/", ":"}
      hasPort == Len(url) >= 7 /\ url[6] = ":"
      defaultPort == IF scheme = <<"https">> THEN "443" ELSE "80"
      host == <<url[5]>>
                \o (IF hasPort /\ url[7] # defaultPort THEN <<":", url[7]>> ELSE <<>>)
  IN IF parses THEN Lower(host) ELSE StripTrailingSlashes(Lower(url))

\* secretProvider.toLowerCase() === scmProvider.toLowerCase()
ProviderMatches_Exact(secretProvider, scmProvider) == secretProvider = scmProvider
ProviderMatches(secretProvider, scmProvider) == Lower(secretProvider) = Lower(scmProvider)

\* the loop over the secrets from position i on: the first secret that passes
\* the provider test, the URL test when scmUrl is given, and has token data
RECURSIVE FirstPat(_, _, _, _)
FirstPat(secrets, i, scmProvider, scmUrl) ==
  IF i > Len(secrets) THEN NoPatInfo
  ELSE LET secret == secrets[i]
       IN IF ~ProviderMatches(secret.gitProvider, scmProvider)
          THEN FirstPat(secrets, i + 1, scmProvider, scmUrl)
          ELSE IF scmUrl # <<>>
                  /\ normalizeUrl(secret.gitProviderEndpoint) # normalizeUrl(scmUrl)
          THEN FirstPat(secrets, i + 1, scmProvider, scmUrl)
          ELSE IF secret.tokenData = RawString(<<>>)
          THEN FirstPat(secrets, i + 1, scmProvider, scmUrl)
          ELSE [tokenName |-> secret.tokenName,
                tokenData |-> Base64Decode(secret.tokenData),
                gitProvider |-> secret.gitProvider,
                gitProviderEndpoint |-> secret.gitProviderEndpoint,
                cheUserId |-> secret.cheUserId,
                isOauth |-> secret.isOauth]

\* getPatForProvider: null on a 404 or 403 of the listing, the error on any other
getPatForProvider(secrets, listing, scmProvider, scmUrl) ==
  IF listing = "ok"
  THEN [kind |-> "ok", patInfo |-> FirstPat(secrets, 1, scmProvider, scmUrl)]
  ELSE IF listing \in {"404", "403"}
  THEN [kind |-> "ok", patInfo |-> NoPatInfo]
  ELSE [kind |-> "throw", patInfo |-> NoPatInfo]

GitHubUrl == <<"https", ":", "/", "/", "github.com">>

\* what a secret of the namespace can carry, its name apart
SecretBodies ==
  {[PatSecret(AliceNamespace, "", <<"alice">>, provider, url, TRUE, <<"gho_1">>)
      EXCEPT !.tokenData = data] :
     provider \in {<<"GitHub">>, <<"gitlab">>},
     url \in {GitHubUrl \o <<":", "8443">>, <<"GitHub.com", "/", "/">>},
     data \in {RawString(<<>>), Base64Encode(<<"gho_1">>)}}

\* getPatForProvider(namespace, scmProvider, scmUrl) is called and awaits the
\* listing of the namespace
PatLookupStart(scmProvider, scmUrl) ==
  /\ calls = EmptyMap /\ last = NoLast
  /\ calls' = Put(calls, 1, [op |-> "getPatForProvider", pc |-> "list",
                             provider |-> scmProvider, hint |-> scmUrl])
  /\ UNCHANGED <<oauthTokens, authenticators, configured, systemStatus, stopCalled, shutdownTimer, tempTokenSecrets,
                 credentialsByUserId, registered, nreq, bbTokens, nextBbId,
                 patSecrets, last>>

\* the listing answers with the secrets, named in list order, or with an
\* error; the call returns or throws
PatLookupListed(id, bodies, listing) ==
  /\ id \in DOMAIN calls /\ calls[id].op = "getPatForProvider"
  /\ calls' = Delete(calls, id)
  /\ UNCHANGED <<oauthTokens, authenticators, configured, systemStatus, stopCalled, shutdownTimer, tempTokenSecrets,
                 credentialsByUserId, registered, nreq, bbTokens, nextBbId,
                 patSecrets>>
  /\ LET c == calls[id]
         secrets == [i \in 1..Len(bodies) |->
                       [bodies[i] EXCEPT !.tokenName = NameOrder[i]]]
         result == getPatForProvider(secrets, listing, c.provider, c.hint)
     IN last' = [NoLast EXCEPT !.op = "getPatForProvider", !.kind = result.kind,
                               !.secrets = secrets, !.listing = listing,
                               !.provider = c.provider, !.hint = c.hint,
                               !.patInfo = result.patInfo]

NextPatLookup ==
  \/ \E scmProvider \in {<<"github">>, <<"GitHub">>, <<"gitlab">>},
        scmUrl \in {<<>>, GitHubUrl, GitHubUrl \o <<":", "443">>, GitHubUrl \o <<":", "8443">>,
           <<"HTTPS", ":", "/", "/", "GITHUB.COM", "/", "org">>,
           <<"GitHub.com", "/", "/">>,
           <<"https", ":", "/", "/", "gitlab.com">>} :
       PatLookupStart(scmProvider, scmUrl)
  \/ \E id \in DOMAIN calls,
        bodies \in UNION {[1..n -> SecretBodies] : n \in 0..MaxSecrets},
        listing \in {"ok", "404", "403", "500"} :
       PatLookupListed(id, bodies, listing)

SpecPatLookup == InitOAuth2({{}}, {EmptyMap}, {{}}) /\ [][NextPatLookup]_vars

\* C20: getPatForProvider returns the first secret in list order whose provider
\* annotation equals the provider case-insensitively, whose scm-url normalizes
\* to the same host as the hint when a hint is given, and which has token
\* data, with the token base64-decoded; it returns none when no secret
\* qualifies or the listing fails with 404 or 403, and rethrows any other
\* listing error.
C20_FirstQualifyingSecret ==
  last.op = "getPatForProvider" =>
    LET QualifiesAt(i) ==
          LET s == last.secrets[i]
          IN /\ Lower(s.gitProvider) = Lower(last.provider)
             /\ last.hint # <<>> =>
                  normalizeUrl(s.gitProviderEndpoint) = normalizeUrl(last.hint)
             /\ s.tokenData # RawString(<<>>)
    IN
    IF last.listing = "ok"
    THEN /\ last.kind = "ok"
         /\ \A i \in 1..Len(last.secrets) :
              QualifiesAt(i) /\ (\A j \in 1..(i - 1) : ~QualifiesAt(j)) =>
                /\ last.patInfo.tokenName = last.secrets[i].tokenName
                /\ last.patInfo.tokenData = last.secrets[i].tokenData.text
                /\ last.patInfo.gitProvider = last.secrets[i].gitProvider
         /\ (\A i \in 1..Len(last.secrets) : ~QualifiesAt(i)) => last.patInfo = NoPatInfo
    ELSE IF last.listing \in {"404", "403"}
    THEN last.kind = "ok" /\ last.patInfo = NoPatInfo
    ELSE last.kind = "throw"

W_C20_SecondSecretReturned ==
  /\ last.op = "getPatForProvider" /\ last.listing = "ok" /\ last.kind = "ok"
  /\ Len(last.secrets) = 2
  /\ last.provider = <<"github">>
  /\ last.hint = <<"HTTPS", ":", "/", "/", "GITHUB.COM", "/", "org">>
  /\ last.secrets[1].tokenData = RawString(<<>>)
  /\ last.secrets[2].gitProvider = <<"GitHub">>
  /\ last.secrets[2].gitProviderEndpoint = <<"GitHub.com", "/", "/">>
  /\ last.patInfo.tokenName = "m1"
  /\ last.patInfo.tokenData = <<"gho_1">>

\* ------------------------------------------------ callback: frame and ownership
\* C27: a step that ends a callback in an exception (or in any answer other
\* than success) leaves tempTokenSecrets and credentialsByUserId as they were,
\* also when the exchange answered 200 with a token and the state carries no
\* userId; an entry leaves tempTokenSecrets only in the step of a successful
\* callback for that token.
C27_FailedCallbackFrame ==
  [][/\ (/\ last'.op = "callback"
         /\ (last'.kind # "ok" \/ (last'.sent /\ last'.userId = ""))) =>
          UNCHANGED <<tempTokenSecrets, credentialsByUserId>>
     /\ \A t \in DOMAIN tempTokenSecrets :
          t \notin DOMAIN tempTokenSecrets' =>
            (last'.op = "callback" /\ last'.kind = "ok" /\ last'.token = t)]_vars

W_C27_NoUserIdKeepsSecret ==
  /\ last.op = "callback" /\ last.kind = OAuth1Error
  /\ last.exchangeOk /\ last.userId = ""
  /\ last.hadSecret /\ last.token \in DOMAIN tempTokenSecrets
  /\ ~last.tempChanged /\ ~last.credChanged

\* C28: a callback answered for a request authenticated as V whose state
\* carries the userId of another user U never stores a credential under U:
\* it does not end in success.
C28_CallbackByOwnerOnly ==
  (/\ last.op = "callback" /\ last.sent
   /\ last.userId # "" /\ last.userId # last.subject) =>
     (last.kind # "ok" /\ ~last.credChanged)

\* --------------------------------- createOrRefreshPersonalAccessToken alone
\* u1 completed Leg 2 and holds one token of the display name at the provider;
\* u2 has no credential
InitRotate ==
  /\ configured = TRUE
  /\ SystemInit
  /\ tempTokenSecrets = EmptyMap
  /\ credentialsByUserId = Put(EmptyMap, "u1", [token |-> "a1", tokenSecret |-> "x1"])
  /\ registered = EmptyMap
  /\ calls = EmptyMap
  /\ nreq = 0
  /\ bbTokens = {[id |-> 1, slug |-> "alice", name |-> DisplayName("u1")]}
  /\ nextBbId = 2
  /\ patSecrets = {}
  /\ oauthTokens = EmptyMap
  /\ authenticators = {}
  /\ last = NoLast

NextRotate ==
  \/ \E userId \in Users : PatInvoke(userId)
  \/ \E id \in DOMAIN calls, username \in BbSlugs \cup {""} : PatWhoami(id, username)
  \/ \E id \in DOMAIN calls, answer \in {"match", "nomatch", "error"} : PatUsers(id, answer)
  \/ \E id \in DOMAIN calls, status \in {200, 500} : PatList(id, status)
  \/ \E id \in DOMAIN calls, status \in {204, 404, 403} : PatDelete(id, status)
  \/ \E id \in DOMAIN calls, answer \in {"created", "notoken", "error"} : PatCreate(id, answer)

SpecRotate == InitRotate /\ [][NextRotate]_vars

\* C26: the requests of an invocation are whoami, user search, token list,
\* then deletes, then create as the last one, each signed with the credential
\* stored for userId; an invocation for a user without a credential sends
\* nothing; one that fails at the whoami answer or at the user search has sent
\* no delete and no create; the create request follows a delete request for
\* every listed token that has the display name.
C26_ProviderCallOrder ==
  LET Ordered(r, userId, listed) ==
        /\ r # <<>> => userId \in DOMAIN credentialsByUserId
        /\ \A i \in 1..Len(r) :
             /\ r[i].cred = credentialsByUserId[userId].token
             /\ i = 1 => r[i].req = "whoami"
             /\ i = 2 => r[i].req = "users"
             /\ i = 3 => r[i].req = "list"
             /\ i > 3 => r[i].req \in {"delete", "create"}
             /\ r[i].req = "create" =>
                  /\ i = Len(r) /\ i > 3
                  /\ {r[j].id : j \in 4..(i - 1)} =
                       {t.id : t \in {x \in listed : x.name = DisplayName(userId)}}
  IN /\ \A id \in DOMAIN calls :
          Ordered(calls[id].requests, calls[id].userId, calls[id].listed)
     /\ last.op = "rotate" =>
          /\ Ordered(last.requests, last.userId, last.listed)
          /\ last.userId \notin DOMAIN credentialsByUserId =>
               (last.requests = <<>> /\ last.kind = OAuth1Error)
          /\ last.failedAt \in {"whoami", "users"} =>
               (/\ last.kind = OAuth1Error
                /\ \A i \in 1..Len(last.requests) :
                     last.requests[i].req \notin {"delete", "create"})

W_C26_TwoDeletesThenCreate ==
  /\ last.op = "rotate"
  /\ Len(last.requests) = 6
  /\ last.requests[4].req = "delete" /\ last.requests[5].req = "delete"
  /\ last.requests[4].id # last.requests[5].id
  /\ last.requests[6].req = "create"

\* ===================================================== SCM URL classifiers
\* UrlParserService.parse and PatLookupService.getProviderFromUrl applied to
\* repository URLs.  A URL is a token sequence: a scheme, ":", "/", "/", a
\* host, then "/"-separated path segments, ".git" as a token of its own, and
\* "?", "at", "=" and a ref; the SSH form starts with the token "git@".
MaxPathParts == 5

\* String.prototype.includes(word) for the words the classifiers look for:
\* the words that occur inside each token, case-sensitively
IncludesWord(s, word) ==
  LET WordsIn(c) ==
        CASE c = "github.com" -> {"github", "github.com"}
          [] c = "github.example.com" -> {"github"}
          [] c = "github-tools" -> {"github"}
          [] c = "gitlab.com" -> {"gitlab", "gitlab.com"}
          [] c = "bitbucket.org" -> {"bitbucket", "bitbucket.org"}
          [] c = "bitbucket.example.com" -> {"bitbucket"}
          [] OTHER -> {}
  IN \E i \in 1..Len(s) : word \in WordsIn(s[i])

\* const x = v: {e : x \in {v}} holds e for the value of v, which is computed
\* once; Only takes it out
Only(S) == CHOOSE e \in S : TRUE

\* pathname.split('/').filter(p => p): the non-empty segments
RECURSIVE PathParts(_)
PathParts(pathname) ==
  Only({IF path = <<>> THEN <<>>
        ELSE LET i == IndexOf(path, "/")
                 first == IF i = 0 THEN path ELSE SubSeq(path, 1, i - 1)
                 rest == IF i = 0 THEN <<>> ELSE SubSeq(path, i + 1, Len(path))
             IN (IF first = <<>> THEN <<>> ELSE <<first>>) \o PathParts(rest)
        : path \in {pathname}})

\* mutant: the .git suffix is kept
StripGit_Keep(x) == x

\* if (x.endsWith('.git')) x = x.substring(0, x.length - 4)
StripGit(x) ==
  IF x # <<>> /\ x[Len(x)] = ".git" THEN SubSeq(x, 1, Len(x) - 1) ELSE x

\* git@hostname:path becomes https://hostname/path when the URL starts with
\* git@ and matches /^git@([^:]+):(.+)$/
SshToHttps(url) ==
  LET i == IndexOf(url, ":")
  IN IF url # <<>> /\ url[1] = "git@" /\ i > 2 /\ i < Len(url)
     THEN <<"https", ":", "/", "/">> \o SubSeq(url, 2, i - 1) \o <<"/">>
            \o SubSeq(url, i + 1, Len(url))
     ELSE url

\* new URL(url): throws without scheme://host; host is lower case and keeps
\* a port other than the default one, hostname has no port, user info is
\* dropped, pathname is "/" when empty, at is searchParams.get('at')
NewUrl(url) ==
  LET ok0 == /\ Len(url) >= 5
             /\ url[2] = ":" /\ url[3] = "/" /\ url[4] = "/"
             /\ Lower(<<url[1]>>)[1] \in {"https", "http", "ssh"}
      rest0 == IF ok0 THEN SubSeq(url, 5, Len(url)) ELSE <<>>
      rest == IF rest0 # <<>> /\ rest0[1] = "git@" THEN Tail(rest0) ELSE rest0
      ok == ok0 /\ rest # <<>> /\ rest[1] \notin {"/", ":", "?", "git@"}
      protocol == IF ok0 THEN Lower(<<url[1]>>)[1] ELSE ""
      hasPort == Len(rest) >= 3 /\ rest[2] = ":"
      defaultPort == IF protocol = "https" THEN "443"
                     ELSE IF protocol = "http" THEN "80" ELSE ""
      port == IF hasPort /\ rest[3] # defaultPort THEN <<rest[3]>> ELSE <<>>
      after == IF ~ok THEN <<>>
               ELSE IF hasPort THEN SubSeq(rest, 4, Len(rest))
               ELSE Tail(rest)
      q == IndexOf(after, "?")
      path == IF q = 0 THEN after ELSE SubSeq(after, 1, q - 1)
      query == IF q = 0 THEN <<>> ELSE SubSeq(after, q + 1, Len(after))
  IN [ok |-> ok, protocol |-> protocol,
      hostname |-> IF ok THEN Lower(<<rest[1]>>) ELSE <<>>,
      port |-> port,
      host |-> IF ok THEN Lower(<<rest[1]>>)
                            \o (IF port = <<>> THEN <<>> ELSE <<":">> \o port)
               ELSE <<>>,
      pathname |-> IF path = <<>> THEN <<"/">> ELSE path,
      at |-> IF Len(query) >= 2 /\ query[1] = "at" /\ query[2] = "="
             THEN SubSeq(query, 3, Len(query)) ELSE <<>>]

\* GithubUrl.parse
GithubUrlParse(url) ==
  Only({Only({Only({
    IF ~urlObj.ok THEN NoDescriptor
    ELSE IF ~IncludesWord(normalizedUrl, "github.com")
            /\ ~IncludesWord(normalizedUrl, "github")
    THEN NoDescriptor
    ELSE IF Len(pathParts) < 2 THEN NoDescriptor
    ELSE [NoDescriptor EXCEPT
            !.providerName = "github",
            !.serverUrl = <<urlObj.protocol, ":", "/", "/">> \o urlObj.host,
            !.owner = pathParts[1],
            !.repository = StripGit(pathParts[2]),
            !.branch = IF Len(pathParts) >= 4
                          /\ pathParts[3] \in {<<"tree">>, <<"blob">>}
                       THEN pathParts[4] ELSE <<"HEAD">>]
    : pathParts \in {PathParts(urlObj.pathname)}})
    : urlObj \in {NewUrl(normalizedUrl)}})
    : normalizedUrl \in {SshToHttps(url)}})

\* GitlabUrl.parse: subGroups is the path up to /-/tree/, project its last
\* component, the ref all that follows /-/tree/
GitlabUrlParse(url) ==
  Only({Only({Only({Only({
    LET subGroups == IF treeIndex > 1 THEN SubSeq(pathname, 1, treeIndex - 1)
                     ELSE pathname
        items == PathParts(subGroups)
    IN IF ~urlObj.ok THEN NoDescriptor
       ELSE IF ~IncludesWord(normalizedUrl, "gitlab.com")
               /\ ~IncludesWord(normalizedUrl, "gitlab")
       THEN NoDescriptor
       ELSE [NoDescriptor EXCEPT
               !.providerName = "gitlab",
               !.serverUrl = <<urlObj.protocol, ":", "/", "/">> \o urlObj.hostname
                               \o (IF urlObj.port = <<>> THEN <<>>
                                   ELSE <<":">> \o urlObj.port),
               !.owner = subGroups,
               !.repository = IF items = <<>> THEN <<>> ELSE items[Len(items)],
               !.branch = IF treeIndex > 1
                          THEN SubSeq(pathname, treeIndex + 5, Len(pathname))
                          ELSE <<"HEAD">>]
    : treeIndex \in {IndexOfSub(pathname, <<"/", "-", "/", "tree", "/">>)}})
    : pathname \in
        {LET p0 == urlObj.pathname
             p1 == IF p0 # <<>> /\ Head(p0) = "/" THEN Tail(p0) ELSE p0
             p2 == IF p1 # <<>> /\ p1[Len(p1)] = "/"
                   THEN SubSeq(p1, 1, Len(p1) - 1) ELSE p1
         IN StripGit(p2)}})
    : urlObj \in {NewUrl(normalizedUrl)}})
    : normalizedUrl \in {SshToHttps(url)}})

\* BitbucketUrl.parse (Bitbucket Cloud)
BitbucketUrlParse(url) ==
  Only({Only({Only({
    IF ~urlObj.ok THEN NoDescriptor
    ELSE IF ~IncludesWord(normalizedUrl, "bitbucket.org") THEN NoDescriptor
    ELSE IF Len(pathParts) < 2 THEN NoDescriptor
    ELSE [NoDescriptor EXCEPT
            !.providerName = "bitbucket",
            !.serverUrl = <<urlObj.protocol, ":", "/", "/">> \o urlObj.hostname,
            !.owner = pathParts[1],
            !.repository = StripGit(pathParts[2]),
            !.branch = IF Len(pathParts) >= 4 /\ pathParts[3] = <<"src">>
                       THEN pathParts[4] ELSE <<"HEAD">>]
    : pathParts \in {PathParts(urlObj.pathname)}})
    : urlObj \in {NewUrl(normalizedUrl)}})
    : normalizedUrl \in {SshToHttps(url)}})

\* BitbucketServerUrl.parse: owner is the project, user the ~user or the
\* /users/ owner; no test of the host
BitbucketServerUrlParse(url) ==
  Only({Only({Only({
    LET serverUrl == <<urlObj.protocol, ":", "/", "/">> \o urlObj.host
        branch == IF urlObj.at = <<>> THEN <<"HEAD">> ELSE urlObj.at
        reposIdx == IndexOf(pathParts, <<"repos">>)
        found == [NoDescriptor EXCEPT !.providerName = "bitbucket-server",
                                      !.serverUrl = serverUrl, !.branch = branch]
    IN IF ~urlObj.ok THEN NoDescriptor
       ELSE IF pathParts # <<>> /\ pathParts[1] = <<"scm">> /\ Len(pathParts) >= 3
       THEN IF Head(pathParts[2]) = "~"
            THEN [found EXCEPT !.repository = StripGit(pathParts[3]),
                               !.user = Tail(pathParts[2])]
            ELSE [found EXCEPT !.repository = StripGit(pathParts[3]),
                               !.owner = pathParts[2]]
       ELSE IF pathParts # <<>> /\ pathParts[1] = <<"projects">>
               /\ reposIdx > 1 /\ Len(pathParts) > reposIdx
       THEN [found EXCEPT !.repository = pathParts[reposIdx + 1],
                          !.owner = pathParts[2]]
       ELSE IF pathParts # <<>> /\ pathParts[1] = <<"users">>
               /\ reposIdx > 1 /\ Len(pathParts) > reposIdx
       THEN [found EXCEPT !.repository = pathParts[reposIdx + 1],
                          !.user = pathParts[2]]
       ELSE NoDescriptor
    : pathParts \in {PathParts(urlObj.pathname)}})
    : urlObj \in {NewUrl(normalizedUrl)}})
    : normalizedUrl \in
        {LET isSsh == Len(url) >= 5
                        /\ SubSeq(url, 1, 5) = <<"ssh", ":", "/", "/", "git@">>
             rest == IF isSsh THEN SubSeq(url, 6, Len(url)) ELSE <<>>
             colon == IndexOf(rest, ":")
             slash == IndexOf(rest, "/")
             hostEnd == IF colon # 0 THEN colon ELSE slash
         IN IF isSsh
            THEN <<"https", ":", "/", "/">> \o SubSeq(rest, 1, hostEnd - 1)
                   \o (IF slash # 0 THEN SubSeq(rest, slash, Len(rest)) ELSE <<>>)
            ELSE url}})

\* mutant: ?at= is appended for every ref, HEAD too
rawFileLocation_AlwaysAt(d, filename) ==
  LET at == <<"?", "at", "=">> \o EncodeURIComponent(d.branch)
      Raw(kind, name) ==
        d.serverUrl \o <<"/", "rest", "/", "api", "/", "1.0", "/", kind, "/">>
          \o EncodeURIComponent(name) \o <<"/", "repos", "/">>
          \o EncodeURIComponent(d.repository) \o <<"/", "raw", "/", filename>> \o at
  IN IF d.owner # <<>> THEN Raw("projects", d.owner)
     ELSE IF d.user # <<>> THEN Raw("users", d.user)
     ELSE Raw("projects", <<>>)

\* BitbucketServerUrl.rawFileLocation(filename)
rawFileLocation(d, filename) ==
  LET at == IF d.branch # <<>> /\ d.branch # <<"HEAD">>
            THEN <<"?", "at", "=">> \o EncodeURIComponent(d.branch) ELSE <<>>
      Raw(kind, name) ==
        d.serverUrl \o <<"/", "rest", "/", "api", "/", "1.0", "/", kind, "/">>
          \o EncodeURIComponent(name) \o <<"/", "repos", "/">>
          \o EncodeURIComponent(d.repository) \o <<"/", "raw", "/", filename>> \o at
  IN IF d.owner # <<>> THEN Raw("projects", d.owner)
     ELSE IF d.user # <<>> THEN Raw("users", d.user)
     ELSE Raw("projects", <<>>)

\* UrlParserService.parse: the first parser that returns a descriptor
UrlParserServiceParse(url) ==
  IF GithubUrlParse(url) # NoDescriptor THEN GithubUrlParse(url)
  ELSE IF GitlabUrlParse(url) # NoDescriptor THEN GitlabUrlParse(url)
  ELSE IF BitbucketServerUrlParse(url) # NoDescriptor THEN BitbucketServerUrlParse(url)
  ELSE BitbucketUrlParse(url)

\* PatLookupService.getProviderFromUrl (the Azure DevOps words occur in no
\* URL looked at)
getProviderFromUrl(repoUrl) ==
  LET url == Lower(repoUrl)
      HasPath(seg) == IndexOfSub(url, <<"/", seg, "/">>) # 0
  IN IF IncludesWord(url, "github.com") \/ IncludesWord(url, "github") THEN "github"
     ELSE IF IncludesWord(url, "gitlab.com") \/ IncludesWord(url, "gitlab") THEN "gitlab"
     ELSE IF /\ (HasPath("scm") \/ HasPath("projects") \/ HasPath("users"))
             /\ IncludesWord(url, "bitbucket")
             /\ ~IncludesWord(url, "bitbucket.org")
     THEN "bitbucket-server"
     ELSE IF IncludesWord(url, "bitbucket.org") \/ IncludesWord(url, "bitbucket")
     THEN "bitbucket"
     ELSE "unknown"

\* the repository URLs looked at: https and git@ forms over hosts of every
\* provider, with and without a ref, and the ssh:// form of Bitbucket Server
UrlInputs ==
  LET Hosts == {"github.com", "GitHub.com", "github.example.com", "gitlab.com",
                "bitbucket.org", "bitbucket.example.com", "bb.example.com"}
      Paths == {<<"/", "acme">>,
                <<"/", "acme", "/", "repo">>,
                <<"/", "acme", "/", "repo", ".git">>,
                <<"/", "acme", "/", "github-tools">>,
                <<"/", "acme", "/", "repo", "/", "tree", "/", "dev", "/", "devfile.yaml">>,
                <<"/", "acme", "/", "repo", "/", "src", "/", "dev">>,
                <<"/", "acme", "/", "repo", "/", "-", "/", "tree", "/", "dev">>,
                <<"/", "scm", "/", "PROJ", "/", "app", ".git">>,
                <<"/", "scm", "/", "~", "bob", "/", "app", ".git">>,
                <<"/", "projects", "/", "ACME">>,
                <<"/", "projects", "/", "ACME", "/", "repos", "/", "app", "/", "browse">>,
                <<"/", "users", "/", "bob", "/", "repos", "/", "app", "/", "browse">>,
                <<"/", "projects", "/", "ACME", "/", "repos", "/", "app", "/", "browse",
                  "/", "devfile.yaml">>}
      Queries == {<<>>, <<"?", "at", "=", "release">>, <<"?", "at", "=", "HEAD">>,
                  <<"?", "at", "=", "feature", "/", "x">>}
  IN {<<"https", ":", "/", "/", h>> \o p \o q :
        h \in Hosts, p \in {x \in Paths : Len(PathParts(x)) <= MaxPathParts},
        q \in Queries}
     \cup {<<"git@", h, ":", "acme", "/", "repo">> \o g :
             h \in Hosts, g \in {<<>>, <<".git">>}}
     \cup {<<"ssh", ":", "/", "/", "git@", h, ":", "7999",
             "/", "scm", "/", "PROJ", "/", "app", ".git">> :
             h \in {"bb.example.com", "bitbucket.example.com"}}

\* one URL is resolved by the parser service and classified by the PAT lookup
UrlResolve(url) ==
  /\ last = NoLast
  /\ UNCHANGED <<configured, systemStatus, stopCalled, shutdownTimer, tempTokenSecrets, credentialsByUserId, registered,
                 calls, nreq, bbTokens, nextBbId, patSecrets, oauthTokens,
                 authenticators>>
  /\ last' = [NoLast EXCEPT
                !.op = "resolve", !.url = url,
                !.descriptor = UrlParserServiceParse(url),
                !.classified = getProviderFromUrl(url),
                !.raw = IF UrlParserServiceParse(url).providerName = "bitbucket-server"
                        THEN rawFileLocation(UrlParserServiceParse(url), "devfile.yaml")
                        ELSE <<>>]

NextUrl == \E url \in UrlInputs : UrlResolve(url)

SpecUrl == Init /\ [][NextUrl]_vars

Resolved == last.op = "resolve"

\* the host a resolved URL names, in lower case
HostOf(url) == NewUrl(SshToHttps(url)).hostname

\* C21: getProviderFromUrl answers 'bitbucket-server' for every URL with a
\* /scm/, /projects/ or /users/ segment whose host is not bitbucket.org and
\* that is no GitHub or GitLab URL, and 'bitbucket' for such a URL on host
\* bitbucket.org.
C21_ServerPathShapes ==
  Resolved =>
    LET url == Lower(last.url)
        other == IncludesWord(url, "github") \/ IncludesWord(url, "gitlab")
        shaped == \E seg \in {"scm", "projects", "users"} :
                     IndexOfSub(url, <<"/", seg, "/">>) # 0
    IN /\ (shaped /\ ~other /\ HostOf(last.url) # <<"bitbucket.org">>) =>
            last.classified = "bitbucket-server"
       /\ (~other /\ HostOf(last.url) = <<"bitbucket.org">>) =>
            last.classified = "bitbucket"

\* C22: a URL on host bitbucket.org is never resolved to a bitbucket-server
\* descriptor, whatever its path, and a URL of a Bitbucket Server path shape
\* on another host is never resolved to a bitbucket (cloud) descriptor.
C22_HostGovernsCloudServerSplit ==
  Resolved =>
    /\ HostOf(last.url) = <<"bitbucket.org">> =>
         last.descriptor.providerName # "bitbucket-server"
    /\ (/\ HostOf(last.url) # <<"bitbucket.org">>
        /\ BitbucketServerUrlParse(last.url) # NoDescriptor) =>
         last.descriptor.providerName # "bitbucket"

\* C23: https://github.example.com/acme/repo/tree/dev/devfile.yaml resolves to
\* the GitHub descriptor of that server with ref dev, and git@host:owner/repo
\* with or without .git resolves to what https://host/owner/repo resolves to.
C23_SshEqualsHttps ==
  Resolved =>
    /\ last.url = <<"https", ":", "/", "/", "github.example.com", "/", "acme", "/",
                    "repo", "/", "tree", "/", "dev", "/", "devfile.yaml">> =>
         last.descriptor =
           [NoDescriptor EXCEPT
              !.providerName = "github",
              !.serverUrl = <<"https", ":", "/", "/", "github.example.com">>,
              !.owner = <<"acme">>, !.repository = <<"repo">>,
              !.branch = <<"dev">>]
    /\ last.url[1] = "git@" =>
         last.descriptor =
           UrlParserServiceParse(<<"https", ":", "/", "/", last.url[2], "/",
                                   "acme", "/", "repo">>)

W_C23_GithubSsh ==
  /\ Resolved
  /\ last.url = <<"git@", "github.com", ":", "acme", "/", "repo", ".git">>
  /\ last.descriptor.providerName = "github"
  /\ last.descriptor.repository = <<"repo">>
  /\ last.descriptor.branch = <<"HEAD">>

\* C24: the raw location of a bitbucket-server descriptor is the projects raw
\* URL for the /projects/ and /scm/<project> forms and the users raw URL for
\* the /users/ and /scm/~user forms; it ends in ?at= and the encoded ref
\* exactly when the URL gave a ref other than HEAD; for
\* https://bb.example.com/projects/ACME/repos/app/browse?at=release it is
\* https://bb.example.com/rest/api/1.0/projects/ACME/repos/app/raw/devfile.yaml?at=release.
C24_ServerRawLocation ==
  (Resolved /\ last.descriptor.providerName = "bitbucket-server") =>
    LET url == last.url
        q == IndexOf(url, "?")
        ref == IF q = 0 THEN <<>> ELSE SubSeq(url, q + 3, Len(url))
        users == \/ IndexOfSub(url, <<"/", "users", "/">>) # 0
                 \/ IndexOfSub(url, <<"/", "scm", "/", "~">>) # 0
        api(kind) == <<"/", "rest", "/", "api", "/", "1.0", "/", kind, "/">>
        suffix == <<"?", "at", "=">> \o EncodeURIComponent(ref)
    IN /\ StartsWith(last.raw, last.descriptor.serverUrl
                                 \o api(IF users THEN "users" ELSE "projects"))
       /\ (ref # <<>> /\ ref # <<"HEAD">>) =>
            SubSeq(last.raw, Len(last.raw) - Len(suffix) + 1, Len(last.raw)) = suffix
       /\ (ref = <<>> \/ ref = <<"HEAD">>) => ~Includes(last.raw, "?")
       /\ url = <<"https", ":", "/", "/", "bb.example.com", "/", "projects", "/",
                  "ACME", "/", "repos", "/", "app", "/", "browse",
                  "?", "at", "=", "release">> =>
            last.raw = <<"https", ":", "/", "/", "bb.example.com", "/", "rest", "/",
                         "api", "/", "1.0", "/", "projects", "/", "ACME", "/",
                         "repos", "/", "app", "/", "raw", "/", "devfile.yaml",
                         "?", "at", "=", "release">>

W_C24_ProjectsBrowseAtRelease ==
  /\ Resolved /\ last.descriptor.providerName = "bitbucket-server"
  /\ last.descriptor.owner = <<"ACME">> /\ last.descriptor.branch = <<"release">>
  /\ last.descriptor.serverUrl = <<"https", ":", "/", "/", "bb.example.com">>
  /\ Len(last.raw) = 27 /\ last.raw[27] = "release"

\* C29: for every URL that parse resolves to a descriptor, getProviderFromUrl
\* returns the providerName of that descriptor.
C29_ClassifiersAgree ==
  (Resolved /\ last.descriptor # NoDescriptor) =>
    last.classified = last.descriptor.providerName

\* ============================================================ system routes
\* POST /system/stop and GET /system/state of one server instance; the
\* handlers do not await, the callback of setTimeout(..., 0) runs as a later
\* task.  last.answers is the sequence of the answers given so far.
MaxSystemRequests == 5

SystemFrame ==
  UNCHANGED <<configured, tempTokenSecrets, credentialsByUserId, registered, calls,
              nreq, bbTokens, nextBbId, patSecrets, oauthTokens, authenticators>>

\* mutant: stopCalled is never tested
SystemStop_Unguarded ==
  /\ Len(last.answers) < MaxSystemRequests
  /\ SystemFrame
  /\ stopCalled' = TRUE
  /\ systemStatus' = "PREPARING_TO_SHUTDOWN"
  /\ shutdownTimer' = TRUE
  /\ last' = [NoLast EXCEPT !.op = "stop", !.status = 204,
                !.answers = Append(last.answers, [op |-> "stop", status |-> 204,
                                                  body |-> ""])]

\* POST /system/stop
SystemStop ==
  /\ Len(last.answers) < MaxSystemRequests
  /\ SystemFrame
  /\ IF stopCalled
     THEN /\ UNCHANGED <<stopCalled, systemStatus, shutdownTimer>>
          /\ last' = [NoLast EXCEPT !.op = "stop", !.status = 409,
                        !.answers = Append(last.answers,
                                           [op |-> "stop", status |-> 409,
                                            body |-> "Conflict"])]
     ELSE /\ stopCalled' = TRUE
          /\ systemStatus' = "PREPARING_TO_SHUTDOWN"
          /\ shutdownTimer' = TRUE
          /\ last' = [NoLast EXCEPT !.op = "stop", !.status = 204,
                        !.answers = Append(last.answers,
                                           [op |-> "stop", status |-> 204,
                                            body |-> ""])]

\* the callback of the setTimeout in the stop handler
ShutdownTimer ==
  /\ shutdownTimer
  /\ SystemFrame
  /\ shutdownTimer' = FALSE
  /\ systemStatus' = "READY_TO_SHUTDOWN"
  /\ UNCHANGED stopCalled
  /\ last' = [NoLast EXCEPT !.answers = last.answers]

\* GET /system/state
SystemState ==
  /\ Len(last.answers) < MaxSystemRequests
  /\ SystemFrame
  /\ UNCHANGED <<stopCalled, systemStatus, shutdownTimer>>
  /\ last' = [NoLast EXCEPT !.op = "state", !.status = 200,
                !.answers = Append(last.answers,
                                   [op |-> "state", status |-> 200,
                                    body |-> systemStatus])]

NextSystem == SystemStop \/ ShutdownTimer \/ SystemState

SpecSystem == Init /\ [][NextSystem]_vars

\* C25: of the answers of one instance, the first POST /system/stop is 204
\* and every later one 409; GET /system/state reports RUNNING before the first
\* stop and PREPARING_TO_SHUTDOWN or READY_TO_SHUTDOWN after it, and after a
\* READY_TO_SHUTDOWN every later report is READY_TO_SHUTDOWN.
C25_StopOnceThenShutdown ==
  LET a == last.answers
      StopBefore(i) == \E j \in 1..(i - 1) : a[j].op = "stop"
  IN \A i \in 1..Len(a) :
       /\ a[i].op = "stop" => a[i].status = (IF StopBefore(i) THEN 409 ELSE 204)
       /\ a[i].op = "state" =>
            /\ a[i].status = 200
            /\ ~StopBefore(i) => a[i].body = "RUNNING"
            /\ StopBefore(i) =>
                 a[i].body \in {"PREPARING_TO_SHUTDOWN", "READY_TO_SHUTDOWN"}
            /\ \A j \in 1..(i - 1) :
                 (a[j].op = "state" /\ a[j].body = "READY_TO_SHUTDOWN") =>
                    a[i].body = "READY_TO_SHUTDOWN"

W_C25_SecondStopAfterReady ==
  /\ Len(last.answers) >= 5
  /\ last.answers[1] = [op |-> "state", status |-> 200, body |-> "RUNNING"]
  /\ last.answers[2] = [op |-> "stop", status |-> 204, body |-> ""]
  /\ last.answers[3].body = "PREPARING_TO_SHUTDOWN"
  /\ last.answers[4].body = "READY_TO_SHUTDOWN"
  /\ last.answers[5] = [op |-> "stop", status |-> 409, body |-> "Conflict"]

\* ============================================== GET /oauth/token, revocation
\* GET /oauth/token: 401 without a subject, 400 without a provider, the token
\* of the in-memory cache when there is one (OAuthService.getOrRefreshToken,
\* taken as a lookup of the cache), else the PAT that getPatForProvider
\* returns for the user's namespace when it is an OAuth one, else 401; an
\* error of the listing is answered 500.  last.revoked holds the pairs of
\* user and provider for which a DELETE /oauth/token was answered 204.
OAuth2GetToken(subject, oauthProvider, listing) ==
  /\ OAuth2Frame
  /\ UNCHANGED <<calls, nreq, patSecrets, oauthTokens>>
  /\ LET namespace == subject.userName \o CheSuffix
         key == <<subject.userId, oauthProvider>>
         names == SelectSeq(NameOrder,
                            LAMBDA name : \E s \in patSecrets :
                                            s.namespace = namespace /\ s.tokenName = name)
         secrets == [i \in 1..Len(names) |->
                       CHOOSE s \in patSecrets :
                         s.namespace = namespace /\ s.tokenName = names[i]]
         result == getPatForProvider(secrets, listing, oauthProvider, <<>>)
         pat == result.patInfo
         base == [NoLast EXCEPT !.op = "oauth2-token", !.session = subject,
                                !.provider = oauthProvider, !.listing = listing,
                                !.revoked = last.revoked]
     IN last' =
          IF ~subject.present THEN [base EXCEPT !.status = 401]
          ELSE IF oauthProvider = <<>> THEN [base EXCEPT !.status = 400]
          ELSE IF key \in DOMAIN oauthTokens
          THEN [base EXCEPT !.status = 200, !.cached = TRUE]
          ELSE IF result.kind = "throw" THEN [base EXCEPT !.status = 500]
          ELSE IF pat.tokenData # <<>> /\ pat.isOauth
          THEN [base EXCEPT !.status = 200, !.patInfo = pat]
          ELSE [base EXCEPT !.status = 401]

NextOAuth2Token ==
  \/ \E subject \in Sessions, oauthProvider \in {<<>>, <<"github">>} :
       OAuth2RevokeStart(subject, oauthProvider)
  \/ \E id \in DOMAIN calls, listed \in BOOLEAN : OAuth2RevokeList(id, listed)
  \/ \E id \in DOMAIN calls, deleted \in BOOLEAN : OAuth2RevokeDelete(id, deleted)
  \/ \E subject \in Sessions, oauthProvider \in {<<>>, <<"github">>},
        listing \in {"ok", "500"} :
       OAuth2GetToken(subject, oauthProvider, listing)

SpecOAuth2Token ==
  InitOAuth2({{PatSecret(AliceNamespace, "m1", <<"alice">>, <<"github">>,
                         <<"https://github.com">>, TRUE, <<"gho_0">>)},
              {PatSecret(AliceNamespace, "m2", <<"bob">>, <<"github">>,
                         <<"https://github.com">>, TRUE, <<"gho_b">>)}},
             {EmptyMap, Put(EmptyMap, <<<<"alice">>, <<"github">>>>, <<"gho_c">>)},
             {{}})
    /\ [][NextOAuth2Token]_vars

\* C30: once a DELETE /oauth/token for provider P was answered 204 to user U,
\* a GET /oauth/token for P by U is answered 401 (no callback stores a token
\* in between and the listing of the GET does not fail), whatever the store
\* calls of the DELETE answered and whichever cheUserId the PATs of the
\* namespace carry.
C30_RevokedTokenUnreadable ==
  (/\ last.op = "oauth2-token" /\ last.session.present
   /\ last.listing # "500"
   /\ <<last.session.userId, last.provider>> \in last.revoked) =>
     last.status = 401

====
